---- MODULE Spec2Model ----
(***************************************************************************)
(* A model of sync_commands.py over an abstract filesystem.                *)
(*   LinkSpec    the link reconciler (_sync_symlinks_to_dir,               *)
(*               _cleanup_stale_symlinks), with failing operations         *)
(*   ExtractSpec the extract reconciler (extract_prompts_to_md,            *)
(*               _process_source_file, _cleanup_stale_md_files)            *)
(*   DeleteSpec  ExtractSpec, with a source deleted between two runs       *)
(*   CallSpec    one call of a helper on arguments of bounded length       *)
(*   MainSpec    one run of main over the tool directories                 *)
(*   PassSpec    the passes of main step by step, with termination         *)
(*   RaceSpec    two passes at once, one filesystem operation at a time    *)
(*   AgentsMdSpec one call of a function of the AGENTS.md links            *)
(*   FollowSpec  one extract pass on a directory with links to a file      *)
(*               outside it                                                *)
(*   TypedSpec   one call of _process_source_file on fields of any type    *)
(***************************************************************************)
EXTENDS Integers, Sequences, FiniteSets, TLC

\* How many reconciliation runs in succession a behaviour holds.
MaxRuns == 2

VARIABLES
    \* ---- link reconciler -------------------------------------------------
    srcFiles,     \* names of the regular files that exist in the source directory
    source_files, \* the source_files argument: a sequence of basenames
    cmd_dir,      \* the target directory: basename -> entry
    cmd_dir0,     \* cmd_dir as it was when the current run started
    lpc,          \* position of the run: "links" (loop and cleanup ahead), "done"
    li,           \* index of the next source of the creation loop
    lrun,         \* number of the current run
    lmutRuns,     \* the runs that created or removed an entry
    lfailed,      \* an os.symlink or unlink of this run's creation loop raised OSError
    lcfailed,     \* an unlink of this run's cleanup pass raised OSError
    lprevOk,      \* no earlier run had a failing operation
    \* ---- extract reconciler ----------------------------------------------
    toml_files,       \* the toml_files argument: a sequence of parsed sources
    first_toml_files, \* the toml_files argument of the first run
    strip_prefix,     \* the strip_prefix argument, an Optional[str]
    md_dir,           \* the target directory: filename -> entry
    md_dir0,          \* md_dir as it was when the current run started
    created_md_files, \* the filenames _process_source_file returned in this run
    epc,              \* position of the run: "extract" (loop and cleanup ahead), "done"
    ei,               \* index of the next source of the extraction loop
    erun,             \* number of the current run
    emutRuns,         \* the runs that wrote, created or removed a file
    efailed,          \* an open or write of this run's extraction loop raised OSError
    ecfailed,         \* an unlink of this run's cleanup pass raised OSError
    eprevOk,          \* no earlier run had a failing operation
    \* ---- one call of a helper function ------------------------------------
    fn,               \* the function called, "none" when no call is modelled
    args,             \* its arguments
    ret,              \* what it returned (and wrote), once cpc = "returned"
    cpc,              \* position of the call: "called", "returned"
    \* ---- main ------------------------------------------------------------
    commands_exists,  \* ./commands is a directory
    agents_dir,       \* ./agents: whether it is a directory, and its *.md files
    agents_md_exists, \* ./AGENTS.md exists
    has_yaml,         \* whether PyYAML is importable (HAS_YAML)
    home,             \* the tool directories under the home directory
    home0,            \* home when main was started
    mpc,              \* position of main: "start", "symlinks", ..., "done"; in a pass: "enter", "loop"
    mi,               \* index of the next entry of targets_symlink
    \* ---- two passes at once -----------------------------------------------
    procs             \* the two processes: position and local variables of each

linkVars == <<srcFiles, source_files, cmd_dir, cmd_dir0, lpc, li, lrun,
              lmutRuns, lfailed, lcfailed, lprevOk>>

extractVars == <<toml_files, first_toml_files, strip_prefix, md_dir, md_dir0, created_md_files,
                 epc, ei, erun, emutRuns, efailed, ecfailed, eprevOk>>

callVars == <<fn, args, ret, cpc>>

mainVars == <<commands_exists, agents_dir, agents_md_exists, has_yaml, home, home0,
              mpc, mi>>

raceVars == <<procs>>

vars == <<linkVars, extractVars, callVars, mainVars, raceVars>>

-----------------------------------------------------------------------------
(* The filesystem outside the target directory.                            *)
(* "SRC" is the canonical source directory, "ALIAS" a directory symlink    *)
(* that resolves to it (./commands, /var -> /private/var), "OTHER" an      *)
(* unrelated directory and "TGT" the target directory itself.              *)

Names == {"a", "b", "c"}

Path(d, n) == [dir |-> d, name |-> n]

NoPath == Path("-", "-")

\* The files of the unrelated directory: OTHER/a exists, OTHER/z does not.
OtherFiles == {"a"}

\* What a link found in the target directory may store.
LinkTargets ==
    {Path("SRC", n) : n \in Names} \cup
    {Path("ALIAS", "a"), Path("ALIAS", "b"), Path("OTHER", "a"), Path("OTHER", "z")}

Absent == [kind |-> "absent", to |-> NoPath]

RegularFile == [kind |-> "file", to |-> NoPath]

Link(p) == [kind |-> "link", to |-> p]

Entries == {Absent, RegularFile} \cup {Link(p) : p \in LinkTargets}

\* pathlib.Path.resolve() of a path outside the target directory: directory
\* aliases are followed; a missing last component is no error (strict=False).
Resolve(p) == IF p.dir = "ALIAS" THEN Path("SRC", p.name) ELSE p

\* The path by which a source is handed to the reconciler (source_dir / name,
\* source_dir = ./commands being an alias of its canonical directory).
SourcePath(n) == Path("ALIAS", n)

\* source_dir.resolve()
source_dir_resolved == "SRC"

\* os.stat of a resolved path: the identity (device, inode) of the object it
\* names, or "ENOENT". Distinct canonical paths name distinct objects.
Stat(dir, p) ==
    CASE p.dir = "SRC"   -> IF p.name \in srcFiles THEN <<"ino", "SRC", p.name>> ELSE <<"ENOENT">>
      [] p.dir = "OTHER" -> IF p.name \in OtherFiles THEN <<"ino", "OTHER", p.name>> ELSE <<"ENOENT">>
      [] p.dir = "TGT"   -> IF dir[p.name].kind = "file" THEN <<"ino", "TGT", p.name>> ELSE <<"ENOENT">>
      [] OTHER           -> <<"ENOENT">>

\* os.path.samefile(p, q): "oserror" when either stat fails.
samefile(dir, p, q) ==
    IF Stat(dir, p) = <<"ENOENT">> \/ Stat(dir, q) = <<"ENOENT">> THEN "oserror"
    ELSE IF Stat(dir, p) = Stat(dir, q) THEN "same" ELSE "diff"

\* link_name.resolve() for the entry at cmd_dir / key.
ResolveEntry(dir, key) ==
    IF dir[key].kind = "link" THEN Resolve(dir[key].to) ELSE Path("TGT", key)

-----------------------------------------------------------------------------
(* A reconciler's view of the run: the directory and the two flags.        *)

St(dir, mutated, failed) == [dir |-> dir, mutated |-> mutated, failed |-> failed]

\* safe_remove(cmd_dir / key): unlink a link or a regular file; an OSError is
\* logged and swallowed. ok = the unlink does not raise.
safe_remove(st, key, ok) ==
    IF st.dir[key].kind \in {"link", "file"}
    THEN IF ok THEN St([st.dir EXCEPT ![key] = Absent], TRUE, st.failed)
               ELSE St(st.dir, st.mutated, TRUE)
    ELSE st

\* safe_symlink(target, cmd_dir / key): os.symlink raises FileExistsError when
\* an entry is in the way, or another OSError (ok = FALSE); both are logged.
safe_symlink(st, target, key, ok) ==
    IF st.dir[key].kind = "absent" /\ ok
    THEN St([st.dir EXCEPT ![key] = Link(target)], TRUE, st.failed)
    ELSE St(st.dir, st.mutated, TRUE)

\* Mutant: any entry found at the link path is taken for the correct link.
CheckExisting_AnyEntry(dir, key, expected_target) == "same"

\* Mutant: the path the link stores is compared with the expected target as
\* a string, instead of the identity of what the two resolve to.
CheckExisting_ByString(dir, key, expected_target) ==
    IF dir[key].kind = "link" /\ dir[key].to = expected_target THEN "same" ELSE "diff"

\* The comparison of an existing entry with the expected target
\* (link_name.resolve() and os.path.samefile).
CheckExisting(dir, key, expected_target) ==
    samefile(dir, ResolveEntry(dir, key), expected_target)

\* Mutant: the iteration removes every other link of the directory before
\* it looks at its own entry, a sweep in the middle of the creation loop.
SyncOne_SweepsEarly(st, name, rmOk, lnOk) ==
    LET swept == St([k \in DOMAIN st.dir |->
                        IF k # name /\ st.dir[k].kind = "link" THEN Absent ELSE st.dir[k]],
                    TRUE, st.failed)
    IN  safe_symlink(safe_remove(swept, name, rmOk), Resolve(SourcePath(name)), name, lnOk)

\* One iteration of the creation loop of _sync_symlinks_to_dir.
SyncOne(st, name, rmOk, lnOk) ==
    LET expected_target == Resolve(SourcePath(name))
    IN  IF st.dir[name].kind # "absent"
        THEN IF CheckExisting(st.dir, name, expected_target) = "same"
             THEN st
             ELSE safe_symlink(safe_remove(st, name, rmOk), expected_target, name, lnOk)
        ELSE safe_symlink(st, expected_target, name, lnOk)

RECURSIVE SeqToSet(_)
SeqToSet(s) == IF s = <<>> THEN {} ELSE {Head(s)} \cup SeqToSet(Tail(s))

\* Mutant: the stored path of the link is tested, not its resolution.
StaleLinks_Unresolved(dir, srcs) ==
    {k \in DOMAIN dir :
        /\ dir[k].kind = "link"
        /\ dir[k].to.dir = source_dir_resolved
        /\ dir[k].to.name \notin SeqToSet(srcs)}

\* Mutant: every link into the source directory is stale.
StaleLinks_NoNameCheck(dir, srcs) ==
    {k \in DOMAIN dir :
        /\ dir[k].kind = "link"
        /\ Resolve(dir[k].to).dir = source_dir_resolved}

\* Mutant: the parent directory of the resolved target is not tested.
StaleLinks_NoParentCheck(dir, srcs) ==
    {k \in DOMAIN dir :
        /\ dir[k].kind = "link"
        /\ Resolve(dir[k].to).name \notin SeqToSet(srcs)}

\* The entries _cleanup_stale_symlinks passes to safe_remove.
StaleLinks(dir, srcs) ==
    LET source_names == SeqToSet(srcs)
    IN  {k \in DOMAIN dir :
            /\ dir[k].kind = "link"
            /\ Resolve(dir[k].to).dir = source_dir_resolved
            /\ Resolve(dir[k].to).name \notin source_names}

\* Mutant: the OSError of a removal is not caught and ends the sweep before
\* anything else is removed.
_cleanup_stale_symlinks_AbortOnError(st, srcs, failing) ==
    LET stale == StaleLinks(st.dir, srcs)
    IN  IF stale \cap failing # {} THEN St(st.dir, st.mutated, TRUE)
        ELSE St([k \in DOMAIN st.dir |-> IF k \in stale THEN Absent ELSE st.dir[k]],
                st.mutated \/ stale # {}, st.failed)

\* _cleanup_stale_symlinks: the removals of failing raise OSError.
_cleanup_stale_symlinks(st, srcs, failing) ==
    LET stale == StaleLinks(st.dir, srcs)
    IN  St([k \in DOMAIN st.dir |->
                IF k \in stale \ failing THEN Absent ELSE st.dir[k]],
           st.mutated \/ (stale \ failing # {}),
           st.failed \/ (stale \cap failing # {}))

-----------------------------------------------------------------------------
(* The extract reconciler. A string is a sequence of characters, an         *)
(* Optional[str] is None or Some(s).                                        *)

None == <<>>

Some(s) == <<s>>

\* Python's truth value of an Optional[str]: None and "" are false.
Truthy(opt) == opt # None /\ opt[1] # <<>>

\* str.startswith
StartsWith(s, p) == Len(p) <= Len(s) /\ SubSeq(s, 1, Len(p)) = p

CLAUDE_PREFIX == <<"c", "_">>

\* The stems of the source files: a.toml, c_.toml, c_a.toml, c_c_a.toml.
Stems ==
    {<<"a">>, <<"c", "_">>, <<"c", "_", "a">>, <<"c", "_", "c", "_", "a">>}

\* The strip_prefix arguments: None (the default), "" and CLAUDE_PREFIX.
Prefixes == {None, Some(<<>>), Some(CLAUDE_PREFIX)}

\* stem + ".md" and pathlib's Path(name).stem
MdName(stem) == stem \o <<".md">>

StemOf(name) == SubSeq(name, 1, Len(name) - 1)

\* The filenames the target directory may hold.
MdNames == {MdName(s) : s \in Stems}

\* The data tomllib.load returns for a source: with or without a "prompt" key.
PromptOf(stem) == <<"prompt of">> \o stem

Data(stem, hasPrompt) ==
    IF hasPrompt THEN [prompt |-> PromptOf(stem)] ELSE [description |-> <<"d">>]

\* A source file: its stem, whether tomllib.load parses it, and the data it
\* returns then.
Source(stem, hasPrompt) ==
    [stem |-> stem, valid |-> TRUE, data |-> Data(stem, hasPrompt)]

\* A source file on which tomllib.load raises TOMLDecodeError, a ValueError.
InvalidSource(stem) == [stem |-> stem, valid |-> FALSE, data |-> <<>>]

SourceFiles == {Source(s, h) : s \in Stems, h \in BOOLEAN}
                   \cup {InvalidSource(s) : s \in Stems}

MdAbsent == [kind |-> "absent", body |-> <<>>]

MdFile(body) == [kind |-> "file", body |-> body]

OldBody == <<"old">>

\* Mutant: the prefix length is cut off without the startswith test.
_get_output_stem_NoStartsWith(source_stem, prefix) ==
    IF Truthy(prefix)
    THEN LET result == SubSeq(source_stem, Len(prefix[1]) + 1, Len(source_stem))
         IN  IF result # <<>> THEN Some(result) ELSE None
    ELSE Some(source_stem)

\* Mutant: an empty remainder is returned as it is ("return result").
_get_output_stem_EmptyRemainder(source_stem, prefix) ==
    IF Truthy(prefix) /\ StartsWith(source_stem, prefix[1])
    THEN Some(SubSeq(source_stem, Len(prefix[1]) + 1, Len(source_stem)))
    ELSE Some(source_stem)

\* Mutant: the prefix is never stripped.
_get_output_stem_KeepsPrefix(source_stem, prefix) ==
    IF Truthy(prefix) /\ source_stem = prefix[1] THEN None ELSE Some(source_stem)

\* _get_output_stem(source_stem, strip_prefix) -> Optional[str]
_get_output_stem(source_stem, prefix) ==
    IF Truthy(prefix) /\ StartsWith(source_stem, prefix[1])
    THEN LET result == SubSeq(source_stem, Len(prefix[1]) + 1, Len(source_stem))
         IN  IF result # <<>> THEN Some(result) ELSE None
    ELSE Some(source_stem)

\* _compute_expected_md_stems(toml_files, strip_prefix) -> (expected, old_format),
\* the loop over the stems from index i on: every source adds its resolved stem
\* (_get_output_stem(...) or source_stem) to expected and, when stripping
\* changed the stem, its original stem to old_format.
RECURSIVE ComputeExpectedFrom(_, _, _, _, _)
ComputeExpectedFrom(stems, prefix, expected, old_format, i) ==
    IF i > Len(stems) THEN <<expected, old_format>>
    ELSE LET source_stem == stems[i]
             out == _get_output_stem(source_stem, prefix)
             resolved == IF Truthy(out) THEN out[1] ELSE source_stem
         IN  ComputeExpectedFrom(stems, prefix, expected \cup {resolved},
                 IF resolved # source_stem THEN old_format \cup {source_stem}
                 ELSE old_format,
                 i + 1)

_compute_expected_md_stems(stems, prefix) ==
    ComputeExpectedFrom(stems, prefix, {}, {}, 1)

-----------------------------------------------------------------------------
(* The text of an extracted file. A text is a sequence of characters;      *)
(* "\n" is the line break, and "description:" stands for the twelve        *)
(* characters of the key.                                                  *)

\* str.replace(old, new) for a one-character old.
RECURSIVE Replace(_, _, _)
Replace(s, old, new) ==
    IF s = <<>> THEN <<>>
    ELSE (IF Head(s) = old THEN new ELSE <<Head(s)>>) \o Replace(Tail(s), old, new)

\* Mutant: backslashes are doubled as well as quotes.
_escape_yaml_string_Backslashes(value) ==
    Replace(Replace(value, "\\", <<"\\", "\\">>), "'", <<"'", "'">>)

\* _escape_yaml_string(value)
_escape_yaml_string(value) == Replace(value, "'", <<"'", "'">>)

\* Whether PyYAML is importable (HAS_YAML) and, when it is, whether its dump
\* starts with the document marker the code provides for.
NoYaml == "no PyYAML"

YamlBare == "PyYAML"

YamlMarked == "PyYAML, document marker"

YamlModes == {NoYaml, YamlBare, YamlMarked}

\* The line breaks of s from position i on that directly follow one another.
RECURSIVE BreakRun(_, _)
BreakRun(s, i) == IF i <= Len(s) /\ s[i] = "\n" THEN 1 + BreakRun(s, i + 1) ELSE 0

\* PyYAML's single-quoted scalar from position i on: a quote is doubled, a
\* run of k line breaks becomes k + 1 line breaks and the indentation.
RECURSIVE SingleQuotedFrom(_, _)
SingleQuotedFrom(s, i) ==
    IF i > Len(s) THEN <<>>
    ELSE IF s[i] = "'" THEN <<"'", "'">> \o SingleQuotedFrom(s, i + 1)
    ELSE IF s[i] = "\n"
         THEN LET k == BreakRun(s, i)
              IN  [j \in 1..(k + 1) |-> "\n"] \o <<" ", " ">> \o SingleQuotedFrom(s, i + k)
    ELSE <<s[i]>> \o SingleQuotedFrom(s, i + 1)

\* The style PyYAML gives a string of quotes, dashes, backslashes, line breaks and
\* letters: plain unless it is empty, has a line break, starts with a quote
\* or with the document marker, or is a lone dash.
YamlPlain(s) ==
    /\ s # <<>>
    /\ \A i \in 1..Len(s) : s[i] # "\n"
    /\ s[1] # "'"
    /\ s # <<"-">>
    /\ ~StartsWith(s, <<"-", "-", "-">>)

\* yaml.dump({"description": description}, default_flow_style=False, ...)
yaml_dump(description, yaml) ==
    (IF yaml = YamlMarked THEN <<"-", "-", "-", "\n">> ELSE <<>>)
        \o <<"description:", " ">>
        \o (IF YamlPlain(description) THEN description
            ELSE <<"'">> \o SingleQuotedFrom(description, 1) \o <<"'">>)
        \o <<"\n">>

\* str.rstrip('\n')
RECURSIVE RStripBreaks(_)
RStripBreaks(s) ==
    IF s # <<>> /\ s[Len(s)] = "\n" THEN RStripBreaks(SubSeq(s, 1, Len(s) - 1)) ELSE s

\* Mutant: the document marker of the dump is not stripped.
_format_yaml_description_KeepsMarker(description, yaml) ==
    IF yaml # NoYaml
    THEN RStripBreaks(yaml_dump(description, yaml))
    ELSE <<"description:", " ", "'">>
             \o _escape_yaml_string(Replace(description, "\n", <<" ">>)) \o <<"'">>

\* Mutant: the fallback leaves the line breaks of the description in place.
_format_yaml_description_KeepsBreaks(description, yaml) ==
    IF yaml # NoYaml
    THEN _format_yaml_description_KeepsMarker(description, IF yaml = YamlMarked THEN YamlBare ELSE yaml)
    ELSE <<"description:", " ", "'">> \o _escape_yaml_string(description) \o <<"'">>

\* _format_yaml_description(description)
_format_yaml_description(description, yaml) ==
    IF yaml # NoYaml
    THEN LET front_matter == RStripBreaks(yaml_dump(description, yaml))
         IN  IF StartsWith(front_matter, <<"-", "-", "-">>)
             THEN LET rest == SubSeq(front_matter, 4, Len(front_matter))
                  IN  IF StartsWith(rest, <<"\n">>)
                      THEN SubSeq(rest, 2, Len(rest)) ELSE rest
             ELSE front_matter
    ELSE LET flat == IF \E i \in 1..Len(description) : description[i] = "\n"
                     THEN Replace(description, "\n", <<" ">>) ELSE description
             escaped_desc == _escape_yaml_string(flat)
         IN  <<"description:", " ", "'">> \o escaped_desc \o <<"'">>

\* What _write_prompt_file writes: f"---\n{front_matter}\n---\n\n{prompt_content}"
\* when a description is given, prompt_content otherwise.
FileText(prompt_content, description, yaml) ==
    IF description # None
    THEN <<"-", "-", "-", "\n">> \o _format_yaml_description(description[1], yaml)
             \o <<"\n", "-", "-", "-", "\n", "\n">> \o prompt_content
    ELSE prompt_content

\* Mutant: the file is opened for appending ("a") instead of truncated ("w").
_write_prompt_file_Append(st, name, prompt_content, description, yaml, io) ==
    CASE io = "ok"    -> St([st.dir EXCEPT ![name] =
                                MdFile(st.dir[name].body
                                       \o FileText(prompt_content, description, yaml))],
                            TRUE, st.failed)
      [] io = "open"  -> St(st.dir, st.mutated, TRUE)
      [] io = "write" -> St([st.dir EXCEPT ![name] = MdFile(st.dir[name].body)], TRUE, TRUE)

\* Mutant: a file that is already there is left as it is.
_write_prompt_file_KeepExisting(st, name, prompt_content, description, yaml, io) ==
    IF st.dir[name].kind = "file" THEN st
    ELSE CASE io = "ok"    -> St([st.dir EXCEPT ![name] =
                                     MdFile(FileText(prompt_content, description, yaml))],
                                 TRUE, st.failed)
           [] io = "open"  -> St(st.dir, st.mutated, TRUE)
           [] io = "write" -> St([st.dir EXCEPT ![name] = MdFile(<<>>)], TRUE, TRUE)

\* _write_prompt_file(target_file, prompt_content, description):
\* open(target_file, "w") truncates or creates the file, write fills it.
\* io = "ok", or the call that raises OSError: "open" or "write".
_write_prompt_file(st, name, prompt_content, description, yaml, io) ==
    CASE io = "ok"    -> St([st.dir EXCEPT ![name] =
                                MdFile(FileText(prompt_content, description, yaml))],
                            TRUE, st.failed)
      [] io = "open"  -> St(st.dir, st.mutated, TRUE)
      [] io = "write" -> St([st.dir EXCEPT ![name] = MdFile(<<>>)], TRUE, TRUE)

\* data.get("description", "") if include_description else None
DescriptionOf(data, include_description) ==
    IF include_description
    THEN Some(IF "description" \in DOMAIN data THEN data.description ELSE <<>>)
    ELSE None

\* Mutant: a stem that is None after stripping falls back to the source stem.
_process_source_file_FallbackStem(st, source_file, prefix, include_description, yaml, io) ==
    IF ~source_file.valid \/ "prompt" \notin DOMAIN source_file.data
    THEN [st |-> st, result |-> None]
    ELSE LET out == _get_output_stem(source_file.stem, prefix)
             md_filename == MdName(IF Truthy(out) THEN out[1] ELSE source_file.stem)
             description == DescriptionOf(source_file.data, include_description)
             after == _write_prompt_file(st, md_filename, source_file.data.prompt,
                                         description, yaml, io)
         IN  [st |-> after,
              result |-> IF io = "ok" THEN Some(md_filename) ELSE None]

\* Mutant: a missing prompt is read as an empty one (data.get("prompt", "")).
_process_source_file_DefaultPrompt(st, source_file, prefix, include_description, yaml, io) ==
    IF ~source_file.valid
    THEN [st |-> st, result |-> None]
    ELSE LET stem == _get_output_stem(source_file.stem, prefix)
         IN  IF ~Truthy(stem)
             THEN [st |-> st, result |-> None]
             ELSE LET md_filename == MdName(stem[1])
                      prompt_content ==
                          IF "prompt" \in DOMAIN source_file.data
                          THEN source_file.data.prompt ELSE <<>>
                      description == DescriptionOf(source_file.data, include_description)
                      after == _write_prompt_file(st, md_filename, prompt_content,
                                                  description, yaml, io)
                  IN  [st |-> after,
                       result |-> IF io = "ok" THEN Some(md_filename) ELSE None]

\* _process_source_file(source_file, target_cmds_dir, tool_name, strip_prefix,
\* include_description): the run after it, and the filename it returns (None
\* when it returns None). The ValueError of tomllib.load on an invalid file
\* and the OSError of a failing write are caught: None.
_process_source_file(st, source_file, prefix, include_description, yaml, io) ==
    IF ~source_file.valid
    THEN [st |-> st, result |-> None]
    ELSE IF "prompt" \notin DOMAIN source_file.data
    THEN [st |-> st, result |-> None]
    ELSE LET stem == _get_output_stem(source_file.stem, prefix)
         IN  IF ~Truthy(stem)
             THEN [st |-> st, result |-> None]
             ELSE LET md_filename == MdName(stem[1])
                      description == DescriptionOf(source_file.data, include_description)
                      after == _write_prompt_file(st, md_filename,
                                                  source_file.data.prompt,
                                                  description, yaml, io)
                  IN  [st |-> after,
                       result |-> IF io = "ok" THEN Some(md_filename) ELSE None]

\* Mutant: an entry that matches no source is kept (the final return is False)
\* and the branch for the pre-strip name is missing.
RECURSIVE ShouldRemoveFrom_MatchedOnly(_, _, _, _, _)
ShouldRemoveFrom_MatchedOnly(item, toml, created, prefix, i) ==
    IF i > Len(toml) THEN FALSE
    ELSE LET source_stem == toml[i].stem
             out == _get_output_stem(source_stem, prefix)
             expected_stem == IF Truthy(out) THEN out[1] ELSE source_stem
         IN  IF StemOf(item) = expected_stem THEN item \notin created
             ELSE ShouldRemoveFrom_MatchedOnly(item, toml, created, prefix, i + 1)

\* Mutant: an entry that matches no source is kept (the final return is False).
RECURSIVE ShouldRemoveFrom_KeepUnmatched(_, _, _, _, _)
ShouldRemoveFrom_KeepUnmatched(item, toml, created, prefix, i) ==
    IF i > Len(toml) THEN FALSE
    ELSE LET source_stem == toml[i].stem
             out == _get_output_stem(source_stem, prefix)
             expected_stem == IF Truthy(out) THEN out[1] ELSE source_stem
         IN  IF StemOf(item) = expected_stem THEN item \notin created
             ELSE IF Truthy(prefix) /\ StemOf(item) = source_stem THEN TRUE
             ELSE ShouldRemoveFrom_KeepUnmatched(item, toml, created, prefix, i + 1)

\* _should_remove_md_file(item, toml_files, created_md_files, strip_prefix):
\* the loop over toml_files from index i on, with its early returns.
RECURSIVE ShouldRemoveFrom(_, _, _, _, _)
ShouldRemoveFrom(item, toml, created, prefix, i) ==
    IF i > Len(toml) THEN TRUE
    ELSE LET source_stem == toml[i].stem
             out == _get_output_stem(source_stem, prefix)
             expected_stem == IF Truthy(out) THEN out[1] ELSE source_stem
         IN  IF StemOf(item) = expected_stem THEN item \notin created
             ELSE IF Truthy(prefix) /\ StemOf(item) = source_stem THEN TRUE
             ELSE ShouldRemoveFrom(item, toml, created, prefix, i + 1)

_should_remove_md_file(item, toml, created, prefix) ==
    ShouldRemoveFrom(item, toml, created, prefix, 1)

\* The files _cleanup_stale_md_files passes to safe_remove: the *.md entries
\* of the directory for which _should_remove_md_file answers True.
StaleMdFiles(dir, toml, created, prefix) ==
    {item \in DOMAIN dir :
        /\ dir[item].kind = "file"
        /\ _should_remove_md_file(item, toml, created, prefix)}

\* _cleanup_stale_md_files: the removals of failing raise OSError.
_cleanup_stale_md_files(st, toml, created, prefix, failing) ==
    LET stale == StaleMdFiles(st.dir, toml, created, prefix)
    IN  St([k \in DOMAIN st.dir |->
                IF k \in stale \ failing THEN MdAbsent ELSE st.dir[k]],
           st.mutated \/ (stale \ failing # {}),
           st.failed \/ (stale \cap failing # {}))

-----------------------------------------------------------------------------
RECURSIVE Distinct(_)
Distinct(s) == s = <<>> \/ (Head(s) \notin SeqToSet(Tail(s)) /\ Distinct(Tail(s)))

SeqsUpTo(S, n) == UNION {[1..k -> S] : k \in 0..n}

\* At most this many sources in one extract run, and this many files in the
\* target directory before the first run.
MaxSources == 2

MaxPrior == 2

\* At most one operation of a behaviour raises OSError: an operation may fail
\* only while none has failed yet.
LinkNoFaultYet == lprevOk /\ ~lfailed /\ ~lcfailed

ExtractNoFaultYet == eprevOk /\ ~efailed /\ ~ecfailed

Outcomes(noFaultYet) == IF noFaultYet THEN {TRUE, FALSE} ELSE {TRUE}

WriteOutcomes(noFaultYet) == IF noFaultYet THEN {"ok", "open", "write"} ELSE {"ok"}

\* The removals of a cleanup sweep that may raise.
FailingSets(stale, noFaultYet) ==
    {{}} \cup (IF noFaultYet THEN {{x} : x \in stale} ELSE {})

LinkInit ==
    /\ srcFiles \in SUBSET Names
    /\ source_files \in {s \in SeqsUpTo(srcFiles, Cardinality(Names)) : Distinct(s)}
    /\ cmd_dir \in [Names -> Entries]
    /\ cmd_dir0 = cmd_dir
    /\ lpc = "links"
    /\ li = 1
    /\ lrun = 1
    /\ lmutRuns = {}
    /\ lfailed = FALSE
    /\ lcfailed = FALSE
    /\ lprevOk = TRUE
    \* the extract reconciler is not run
    /\ toml_files = <<>>
    /\ first_toml_files = <<>>
    /\ strip_prefix = None
    /\ md_dir = [n \in MdNames |-> MdAbsent]
    /\ md_dir0 = md_dir
    /\ created_md_files = {}
    /\ epc = "idle"
    /\ ei = 1
    /\ erun = 1
    /\ emutRuns = {}
    /\ efailed = FALSE
    /\ ecfailed = FALSE
    /\ eprevOk = TRUE
    \* no helper is called on its own
    /\ fn = "none"
    /\ args = <<>>
    /\ ret = <<>>
    /\ cpc = "idle"
    \* main is not run
    /\ commands_exists = FALSE
    /\ agents_dir = [exists |-> FALSE, files |-> <<>>]
    /\ agents_md_exists = FALSE
    /\ has_yaml = "no PyYAML"
    /\ home = <<>>
    /\ home0 = <<>>
    /\ mpc = "idle"
    /\ mi = 1
    \* no two passes run at once
    /\ procs = <<>>

LinkStep ==
    /\ lpc = "links"
    /\ li <= Len(source_files)
    /\ \E rmOk \in Outcomes(LinkNoFaultYet) :
       \E lnOk \in Outcomes(LinkNoFaultYet /\ rmOk) :
        LET st == SyncOne(St(cmd_dir, FALSE, lfailed), source_files[li], rmOk, lnOk)
        IN  /\ cmd_dir' = st.dir
            /\ lmutRuns' = IF st.mutated THEN lmutRuns \cup {lrun} ELSE lmutRuns
            /\ lfailed' = st.failed
    /\ li' = li + 1
    /\ UNCHANGED <<srcFiles, source_files, cmd_dir0, lpc, lrun, lcfailed, lprevOk>>
    /\ UNCHANGED extractVars
    /\ UNCHANGED callVars
    /\ UNCHANGED <<mainVars, raceVars>>

\* The cleanup sweep that ends the run, once the creation loop is through.
LinkCleanup ==
    /\ lpc = "links"
    /\ li > Len(source_files)
    /\ \E failing \in FailingSets(StaleLinks(cmd_dir, source_files), LinkNoFaultYet) :
        LET st == _cleanup_stale_symlinks(St(cmd_dir, FALSE, FALSE), source_files, failing)
        IN  /\ cmd_dir' = st.dir
            /\ lmutRuns' = IF st.mutated THEN lmutRuns \cup {lrun} ELSE lmutRuns
            /\ lcfailed' = st.failed
    /\ lpc' = "done"
    /\ UNCHANGED <<srcFiles, source_files, cmd_dir0, li, lrun, lfailed, lprevOk>>
    /\ UNCHANGED extractVars
    /\ UNCHANGED callVars
    /\ UNCHANGED <<mainVars, raceVars>>

\* The reconciler is run again on the same sources.
LinkRerun ==
    /\ lpc = "done"
    /\ lrun < MaxRuns
    /\ lrun' = lrun + 1
    /\ lpc' = "links"
    /\ li' = 1
    /\ cmd_dir0' = cmd_dir
    /\ lprevOk' = (lprevOk /\ ~lfailed /\ ~lcfailed)
    /\ lfailed' = FALSE
    /\ lcfailed' = FALSE
    /\ UNCHANGED <<srcFiles, source_files, cmd_dir, lmutRuns>>
    /\ UNCHANGED extractVars
    /\ UNCHANGED callVars
    /\ UNCHANGED <<mainVars, raceVars>>

LinkNext == LinkStep \/ LinkCleanup \/ LinkRerun

LinkSpec == LinkInit /\ [][LinkNext]_vars

-----------------------------------------------------------------------------
(* extract_prompts_to_md(toml_files, target_cmds_dir, tool_name, strip_prefix) *)

StemsOfSeq(toml) == {toml[i].stem : i \in 1..Len(toml)}

ExtractInit ==
    /\ toml_files \in
         {t \in SeqsUpTo(SourceFiles, MaxSources) :
             Cardinality(StemsOfSeq(t)) = Len(t)}
    /\ first_toml_files = toml_files
    /\ strip_prefix \in Prefixes
    /\ \E prior \in SUBSET MdNames :
         /\ Cardinality(prior) <= MaxPrior
         /\ md_dir = [n \in MdNames |-> IF n \in prior THEN MdFile(OldBody) ELSE MdAbsent]
    /\ md_dir0 = md_dir
    /\ created_md_files = {}
    /\ epc = "extract"
    /\ ei = 1
    /\ erun = 1
    /\ emutRuns = {}
    /\ efailed = FALSE
    /\ ecfailed = FALSE
    /\ eprevOk = TRUE
    \* the link reconciler is not run
    /\ srcFiles = {}
    /\ source_files = <<>>
    /\ cmd_dir = [n \in Names |-> Absent]
    /\ cmd_dir0 = cmd_dir
    /\ lpc = "idle"
    /\ li = 1
    /\ lrun = 1
    /\ lmutRuns = {}
    /\ lfailed = FALSE
    /\ lcfailed = FALSE
    /\ lprevOk = TRUE
    \* no helper is called on its own
    /\ fn = "none"
    /\ args = <<>>
    /\ ret = <<>>
    /\ cpc = "idle"
    \* main is not run
    /\ commands_exists = FALSE
    /\ agents_dir = [exists |-> FALSE, files |-> <<>>]
    /\ agents_md_exists = FALSE
    /\ has_yaml = "no PyYAML"
    /\ home = <<>>
    /\ home0 = <<>>
    /\ mpc = "idle"
    /\ mi = 1
    \* no two passes run at once
    /\ procs = <<>>

\* One iteration of the extraction loop (include_description=False).
ExtractStep ==
    /\ epc = "extract"
    /\ ei <= Len(toml_files)
    /\ \E io \in WriteOutcomes(ExtractNoFaultYet) :
        LET r == _process_source_file(St(md_dir, FALSE, efailed), toml_files[ei],
                                      strip_prefix, FALSE, NoYaml, io)
        IN  /\ md_dir' = r.st.dir
            /\ emutRuns' = IF r.st.mutated THEN emutRuns \cup {erun} ELSE emutRuns
            /\ efailed' = r.st.failed
            /\ created_md_files' =
                 IF Truthy(r.result) THEN created_md_files \cup {r.result[1]}
                 ELSE created_md_files
    /\ ei' = ei + 1
    /\ UNCHANGED <<toml_files, first_toml_files, strip_prefix, md_dir0, epc, erun, ecfailed, eprevOk>>
    /\ UNCHANGED linkVars
    /\ UNCHANGED callVars
    /\ UNCHANGED <<mainVars, raceVars>>

\* The stale-file sweep that ends the run, once the extraction loop is through.
ExtractCleanup ==
    /\ epc = "extract"
    /\ ei > Len(toml_files)
    /\ \E failing \in FailingSets(StaleMdFiles(md_dir, toml_files, created_md_files,
                                              strip_prefix), ExtractNoFaultYet) :
        LET st == _cleanup_stale_md_files(St(md_dir, FALSE, FALSE), toml_files,
                                          created_md_files, strip_prefix, failing)
        IN  /\ md_dir' = st.dir
            /\ emutRuns' = IF st.mutated THEN emutRuns \cup {erun} ELSE emutRuns
            /\ ecfailed' = st.failed
    /\ epc' = "done"
    /\ UNCHANGED <<toml_files, first_toml_files, strip_prefix, md_dir0, created_md_files, ei, erun,
                   efailed, eprevOk>>
    /\ UNCHANGED linkVars
    /\ UNCHANGED callVars
    /\ UNCHANGED <<mainVars, raceVars>>

\* extract_prompts_to_md is run again on the same sources.
ExtractRerun ==
    /\ epc = "done"
    /\ erun < MaxRuns
    /\ erun' = erun + 1
    /\ epc' = "extract"
    /\ ei' = 1
    /\ md_dir0' = md_dir
    /\ created_md_files' = {}
    /\ eprevOk' = (eprevOk /\ ~efailed /\ ~ecfailed)
    /\ efailed' = FALSE
    /\ ecfailed' = FALSE
    /\ UNCHANGED <<toml_files, first_toml_files, strip_prefix, md_dir, emutRuns>>
    /\ UNCHANGED linkVars
    /\ UNCHANGED callVars
    /\ UNCHANGED <<mainVars, raceVars>>

ExtractNext == ExtractStep \/ ExtractCleanup \/ ExtractRerun

ExtractSpec == ExtractInit /\ [][ExtractNext]_vars

\* The list without its k-th element.
Without(seq, k) ==
    [i \in 1..(Len(seq) - 1) |-> IF i < k THEN seq[i] ELSE seq[i + 1]]

\* One source file is deleted from ./commands, and extract_prompts_to_md is
\* run again on the files main's glob still finds.
ExtractRerunWithout ==
    /\ epc = "done"
    /\ erun < MaxRuns
    /\ \E k \in 1..Len(toml_files) : toml_files' = Without(toml_files, k)
    /\ erun' = erun + 1
    /\ epc' = "extract"
    /\ ei' = 1
    /\ md_dir0' = md_dir
    /\ created_md_files' = {}
    /\ eprevOk' = (eprevOk /\ ~efailed /\ ~ecfailed)
    /\ efailed' = FALSE
    /\ ecfailed' = FALSE
    /\ UNCHANGED <<first_toml_files, strip_prefix, md_dir, emutRuns>>
    /\ UNCHANGED linkVars
    /\ UNCHANGED callVars
    /\ UNCHANGED <<mainVars, raceVars>>

DeleteNext == ExtractStep \/ ExtractCleanup \/ ExtractRerunWithout

\* Passes of extract_prompts_to_md between which source files are deleted.
DeleteSpec == ExtractInit /\ [][DeleteNext]_vars

-----------------------------------------------------------------------------
(* The front-matter parser, _parse_yaml_frontmatter(content). A mapping is  *)
(* a function from keys to values; a key of the text is one token, its      *)
(* colon included.                                                          *)

KeyOf == ("description:" :> "description") @@ ("name:" :> "name")
             @@ ("tools:" :> "tools") @@ ("mode:" :> "mode")

KeyTokens == DOMAIN KeyOf

OpenDelimiter == <<"-", "-", "-", "\n">>

CloseDelimiter == <<"\n", "-", "-", "-", "\n">>

\* str.find(sub, start), positions counted from 1: 0 when sub is not found.
Find(s, sub, start) ==
    LET hits == {k \in start..(Len(s) - Len(sub) + 1) :
                    SubSeq(s, k, k + Len(sub) - 1) = sub}
    IN  IF hits = {} THEN 0 ELSE CHOOSE k \in hits : \A j \in hits : k <= j

\* str.split("\n")
RECURSIVE SplitLines(_)
SplitLines(s) ==
    LET k == Find(s, <<"\n">>, 1)
    IN  IF k = 0 THEN <<s>>
        ELSE <<SubSeq(s, 1, k - 1)>> \o SplitLines(SubSeq(s, k + 1, Len(s)))

\* The text between the quotes of a single-quoted scalar, from position i
\* on: Some(value), a doubled quote standing for one quote, or None when a
\* quote stands alone (the scalar ends there and the rest is an error).
RECURSIVE UnquotedFrom(_, _)
UnquotedFrom(s, i) ==
    IF i > Len(s) THEN Some(<<>>)
    ELSE IF s[i] = "'" /\ ~(i < Len(s) /\ s[i + 1] = "'") THEN None
    ELSE LET rest == UnquotedFrom(s, IF s[i] = "'" THEN i + 2 ELSE i + 1)
         IN  IF rest = None THEN None ELSE Some(<<s[i]>> \o rest[1])

\* The string a one-line scalar stands for, None when the loader raises
\* YAMLError on it or loads something that is no string: a single-quoted
\* scalar, an unclosed flow sequence, an empty scalar or a lone dash, or a
\* plain scalar.
LoadScalar(s) ==
    IF s = <<>> \/ s = <<"-">> THEN None
    ELSE IF s[1] = "'"
         THEN IF Len(s) >= 2 /\ s[Len(s)] = "'"
              THEN UnquotedFrom(SubSeq(s, 2, Len(s) - 1), 1) ELSE None
    ELSE IF s[1] = "[" THEN None
    ELSE Some(s)

\* A line of a block mapping: key, space, scalar.
IsEntry(line) ==
    /\ Len(line) >= 2
    /\ line[1] \in KeyTokens
    /\ line[2] = " "
    /\ LoadScalar(SubSeq(line, 3, Len(line))) # None

\* yaml.safe_load of the text between the delimiters: Some(mapping), or None
\* when it raises YAMLError. An empty text loads as empty_load says.
safe_load(block, empty_load) ==
    LET lines == SplitLines(block)
    IN  IF block = <<>> THEN empty_load
        ELSE IF \E i \in 1..Len(lines) : ~IsEntry(lines[i]) THEN None
        ELSE IF \E i, j \in 1..Len(lines) : i # j /\ lines[i][1] = lines[j][1] THEN None
        ELSE Some([k \in {KeyOf[lines[i][1]] : i \in 1..Len(lines)} |->
                     LET i == CHOOSE j \in 1..Len(lines) : KeyOf[lines[j][1]] = k
                     IN  LoadScalar(SubSeq(lines[i], 3, Len(lines[i])))[1]])

\* What the load of an empty block may give the caller: None or {}.
EmptyLoads == {None, Some(<<>>)}

\* Mutant: the text after the closing delimiter is stripped of its leading
\* line breaks.
_parse_yaml_frontmatter_StripsBody(content, yaml, empty_load) ==
    IF yaml = NoYaml \/ ~StartsWith(content, OpenDelimiter) THEN <<None, content>>
    ELSE LET end == Find(content, CloseDelimiter, Len(OpenDelimiter))
             body == SubSeq(content, end + Len(CloseDelimiter), Len(content))
             first == IF \E k \in 1..Len(body) : body[k] # "\n"
                      THEN CHOOSE k \in 1..Len(body) :
                               body[k] # "\n" /\ \A j \in 1..(k - 1) : body[j] = "\n"
                      ELSE Len(body) + 1
         IN  IF end = 0 THEN <<None, content>>
             ELSE <<safe_load(SubSeq(content, Len(OpenDelimiter) + 1, end - 1), empty_load),
                    SubSeq(body, first, Len(body))>>

\* Mutant: a block that does not load is dropped from the body.
_parse_yaml_frontmatter_DropsBadBlock(content, yaml, empty_load) ==
    IF yaml = NoYaml \/ ~StartsWith(content, OpenDelimiter) THEN <<None, content>>
    ELSE LET end == Find(content, CloseDelimiter, Len(OpenDelimiter))
         IN  IF end = 0 THEN <<None, content>>
             ELSE <<safe_load(SubSeq(content, Len(OpenDelimiter) + 1, end - 1), empty_load),
                    SubSeq(content, end + Len(CloseDelimiter), Len(content))>>

\* _parse_yaml_frontmatter(content): the pair (frontmatter, body). Without
\* PyYAML nothing is parsed. The closing delimiter may start at the line
\* break of the opening one (an empty block).
_parse_yaml_frontmatter(content, yaml, empty_load) ==
    IF yaml = NoYaml THEN <<None, content>>
    ELSE IF ~StartsWith(content, OpenDelimiter) THEN <<None, content>>
    ELSE LET end == Find(content, CloseDelimiter, Len(OpenDelimiter))
         IN  IF end = 0 THEN <<None, content>>
             ELSE LET block == SubSeq(content, Len(OpenDelimiter) + 1, end - 1)
                      body == SubSeq(content, end + Len(CloseDelimiter), Len(content))
                      frontmatter == safe_load(block, empty_load)
                  IN  IF frontmatter = None /\ block # <<>>
                      THEN <<None, content>>
                      ELSE <<frontmatter, body>>

-----------------------------------------------------------------------------
(* The agent transform, _sync_opencode_agents_folder(target_dir): the       *)
(* agent files of ./agents are rewritten into target_dir with a block of    *)
(* their description and the marker field, and stale files are removed.     *)

\* The *.md files ./agents may hold, and one that it held once.
AgentFile == <<"g", ".md">>

GoneAgentFile == <<"h", ".md">>

AgentNames == {AgentFile, GoneAgentFile}

TokenOf(key) == CHOOSE t \in KeyTokens : KeyOf[t] = key

\* The line of one string field: the line of a description, under its key.
FieldLine(key, value, yaml) ==
    [_format_yaml_description(value, yaml) EXCEPT ![1] = TokenOf(key)]

\* _format_yaml_dict(fields) for an ordered mapping of string fields, given
\* as a sequence of pairs: one line a field.
RECURSIVE _format_yaml_dict(_, _)
_format_yaml_dict(fields, yaml) ==
    IF fields = <<>> THEN <<>>
    ELSE FieldLine(fields[1][1], fields[1][2], yaml)
             \o (IF Len(fields) = 1 THEN <<>>
                 ELSE <<"\n">> \o _format_yaml_dict(Tail(fields), yaml))

\* The value of the marker field; the token stands for its letters.
Marker == <<"mode", <<"subagent">>>>

\* Mutant: every field of the source block is carried over.
AgentFields_PassThrough(frontmatter) ==
    (IF frontmatter # None
     THEN LET keys == DOMAIN frontmatter[1]
              order == <<"name", "description", "tools">>
              kept == SelectSeq(order, LAMBDA k : k \in keys)
          IN  [i \in 1..Len(kept) |-> <<kept[i], frontmatter[1][kept[i]]>>]
     ELSE <<>>) \o <<Marker>>

\* The fields of the output block: the description of the source block, if
\* it has one, and the marker.
AgentFields(frontmatter) ==
    (IF frontmatter # None /\ "description" \in DOMAIN frontmatter[1]
     THEN << <<"description", frontmatter[1].description>> >>
     ELSE <<>>) \o <<Marker>>

\* Mutant: a source without a parsed block is copied as it is.
AgentText_CopiesUnparsed(content, yaml, empty_load) ==
    LET parsed == _parse_yaml_frontmatter(content, yaml, empty_load)
    IN  IF parsed[1] = None /\ parsed[2] = content THEN content
        ELSE OpenDelimiter \o _format_yaml_dict(AgentFields(parsed[1]), yaml)
                 \o <<"\n", "-", "-", "-", "\n">> \o parsed[2]

\* The text written for an agent file: the new block and the body the
\* parser returned.
AgentText(content, yaml, empty_load) ==
    LET parsed == _parse_yaml_frontmatter(content, yaml, empty_load)
    IN  OpenDelimiter \o _format_yaml_dict(AgentFields(parsed[1]), yaml)
            \o <<"\n", "-", "-", "-", "\n">> \o parsed[2]

\* The target directory before the call: empty, holding the file of a former
\* agent, or an old file of the present one.
AgentPriors ==
    {[n \in AgentNames |-> IF n \in old THEN MdFile(OldBody) ELSE MdAbsent] :
        old \in {{}, {GoneAgentFile}, {AgentFile}}}

\* _sync_opencode_agents_folder(target_dir) with ./agents holding AgentFile
\* alone, no operation failing: the target directory after it.
_sync_opencode_agents_folder(dir, content, yaml, empty_load) ==
    LET created == {AgentFile}
    IN  [n \in DOMAIN dir |->
            IF n = AgentFile THEN MdFile(AgentText(content, yaml, empty_load))
            ELSE IF dir[n].kind = "file" /\ n \notin created THEN MdAbsent
            ELSE dir[n]]

-----------------------------------------------------------------------------
(* One call of a helper function on arguments drawn from bounded sets.     *)

Chars == {"a", "c", "_"}

\* The longest stem and the longest prefix a call is given.
MaxStemLen == 4

MaxPrefixLen == 2

\* Stems of source files (a filename has a non-empty stem) and strip_prefix
\* arguments: None, "" and the non-empty prefixes.
StemArgs == SeqsUpTo(Chars, MaxStemLen) \ {<<>>}

PrefixArgs == {None} \cup {Some(p) : p \in SeqsUpTo(Chars, MaxPrefixLen)}

\* The stem lists of a call: sources with distinct file names.
StemLists == {t \in SeqsUpTo(Stems, MaxSources) : Distinct(t)}

\* The longest description a call is given.
MaxDescLen == 3

DescChars == {"x", "'", "-", "\n", "\\"}

\* The strings over DescChars.
DescStrings == SeqsUpTo(DescChars, MaxDescLen)

\* The description arguments: None, "" and the strings over DescChars.
DescArgs == {None} \cup {Some(d) : d \in DescStrings}

\* The prompt_content arguments: empty, one line, two lines of dashes.
PromptArgs == {<<>>, <<"p">>, <<"-", "-", "-", "\n", "-", "-", "-">>}

\* The target file before the call: missing, or written by an earlier run.
PriorEntries == {MdAbsent, MdFile(OldBody)}

\* The descriptions of one line.
SingleLines == {d \in DescStrings : \A i \in 1..Len(d) : d[i] # "\n"}

\* Texts as _write_prompt_file writes them with a description of one line.
WrittenTexts(yaml) ==
    {FileText(p, Some(d), yaml) : p \in {<<>>, <<"p">>}, d \in SingleLines}

\* Texts an agent file or another file may hold: no block, a delimiter that
\* is not at the beginning, no closing delimiter, an empty block, a block of
\* three fields, a block with an unclosed bracket or quote, a body that is
\* empty or holds delimiters itself.
RawTexts ==
    { <<>>,
      <<"p">>,
      <<"x", "\n", "-", "-", "-", "\n", "\n", "p">>,
      <<"-", "-", "-", "\n", "name:", " ", "x", "\n", "\n", "p">>,
      <<"-", "-", "-", "\n", "-", "-", "-", "\n", "\n", "p">>,
      <<"-", "-", "-", "\n", "name:", " ", "x", "\n", "description:", " ", "'", "d", "'",
        "\n", "tools:", " ", "y", "\n", "-", "-", "-", "\n", "\n", "p">>,
      <<"-", "-", "-", "\n", "name:", " ", "x", "\n", "tools:", " ", "y", "\n",
        "-", "-", "-", "\n", "\n", "p">>,
      <<"-", "-", "-", "\n", "description:", " ", "[", "x", "\n", "name:", " ", "x", "\n",
        "-", "-", "-", "\n", "\n", "p">>,
      <<"-", "-", "-", "\n", "description:", " ", "'", "x", "\n", "-", "-", "-", "\n", "p">>,
      <<"-", "-", "-", "\n", "description:", " ", "d", "\n", "-", "-", "-", "\n">>,
      <<"-", "-", "-", "\n", "description:", " ", "d", "\n", "-", "-", "-", "\n",
        "\n", "-", "-", "-", "\n", "p", "\n", "-", "-", "-", "\n">> }

Fns == {"_get_output_stem", "_compute_expected_md_stems", "_write_prompt_file",
        "_format_yaml_description", "_parse_yaml_frontmatter",
        "_sync_opencode_agents_folder"}

CallArgs(f) ==
    CASE f = "_get_output_stem" -> StemArgs \X PrefixArgs
      [] f = "_compute_expected_md_stems" -> StemLists \X Prefixes
      [] f = "_write_prompt_file" -> PriorEntries \X PromptArgs \X DescArgs \X YamlModes
      [] f = "_format_yaml_description" -> DescStrings \X YamlModes
      [] f = "_parse_yaml_frontmatter" ->
             {<<t, y>> : t \in RawTexts, y \in YamlModes}
                 \cup UNION {{<<t, y>> : t \in WrittenTexts(y)} : y \in YamlModes}
      [] f = "_sync_opencode_agents_folder" -> AgentPriors \X RawTexts \X YamlModes

CallInit ==
    /\ fn \in Fns
    /\ args \in CallArgs(fn)
    /\ ret = <<>>
    /\ cpc = "called"
    \* the link reconciler is not run
    /\ srcFiles = {}
    /\ source_files = <<>>
    /\ cmd_dir = [n \in Names |-> Absent]
    /\ cmd_dir0 = cmd_dir
    /\ lpc = "idle"
    /\ li = 1
    /\ lrun = 1
    /\ lmutRuns = {}
    /\ lfailed = FALSE
    /\ lcfailed = FALSE
    /\ lprevOk = TRUE
    \* the extract reconciler is not run
    /\ toml_files = <<>>
    /\ first_toml_files = <<>>
    /\ strip_prefix = None
    /\ md_dir = [n \in MdNames |-> MdAbsent]
    /\ md_dir0 = md_dir
    /\ created_md_files = {}
    /\ epc = "idle"
    /\ ei = 1
    /\ erun = 1
    /\ emutRuns = {}
    /\ efailed = FALSE
    /\ ecfailed = FALSE
    /\ eprevOk = TRUE
    \* main is not run
    /\ commands_exists = FALSE
    /\ agents_dir = [exists |-> FALSE, files |-> <<>>]
    /\ agents_md_exists = FALSE
    /\ has_yaml = "no PyYAML"
    /\ home = <<>>
    /\ home0 = <<>>
    /\ mpc = "idle"
    /\ mi = 1
    \* no two passes run at once
    /\ procs = <<>>

\* _get_output_stem(source_stem, strip_prefix) is called and returns.
Call_get_output_stem ==
    /\ cpc = "called"
    /\ fn = "_get_output_stem"
    /\ ret' = _get_output_stem(args[1], args[2])
    /\ cpc' = "returned"
    /\ UNCHANGED <<fn, args>>
    /\ UNCHANGED linkVars
    /\ UNCHANGED extractVars
    /\ UNCHANGED <<mainVars, raceVars>>

\* _compute_expected_md_stems(toml_files, strip_prefix) is called and returns.
Call_compute_expected_md_stems ==
    /\ cpc = "called"
    /\ fn = "_compute_expected_md_stems"
    /\ ret' = _compute_expected_md_stems(args[1], args[2])
    /\ cpc' = "returned"
    /\ UNCHANGED <<fn, args>>
    /\ UNCHANGED linkVars
    /\ UNCHANGED extractVars
    /\ UNCHANGED <<mainVars, raceVars>>

\* _write_prompt_file(target_file, prompt_content, description) is called on
\* a target file and returns or raises: the file after it, and whether
\* OSError was raised.
Call_write_prompt_file ==
    /\ cpc = "called"
    /\ fn = "_write_prompt_file"
    /\ \E io \in {"ok", "open", "write"} :
        LET name == MdName(<<"a">>)
            before == [n \in MdNames |-> IF n = name THEN args[1] ELSE MdAbsent]
            st == _write_prompt_file(St(before, FALSE, FALSE), name,
                                     args[2], args[3], args[4], io)
        IN  ret' = <<st.dir[name], st.failed>>
    /\ cpc' = "returned"
    /\ UNCHANGED <<fn, args>>
    /\ UNCHANGED linkVars
    /\ UNCHANGED extractVars
    /\ UNCHANGED <<mainVars, raceVars>>

\* _format_yaml_description(description) is called and returns, HAS_YAML
\* being as args[2] says.
Call_format_yaml_description ==
    /\ cpc = "called"
    /\ fn = "_format_yaml_description"
    /\ ret' = _format_yaml_description(args[1], args[2])
    /\ cpc' = "returned"
    /\ UNCHANGED <<fn, args>>
    /\ UNCHANGED linkVars
    /\ UNCHANGED extractVars
    /\ UNCHANGED <<mainVars, raceVars>>

\* _parse_yaml_frontmatter(content) is called and returns, HAS_YAML being as
\* args[2] says.
Call_parse_yaml_frontmatter ==
    /\ cpc = "called"
    /\ fn = "_parse_yaml_frontmatter"
    /\ \E empty_load \in EmptyLoads :
         ret' = _parse_yaml_frontmatter(args[1], args[2], empty_load)
    /\ cpc' = "returned"
    /\ UNCHANGED <<fn, args>>
    /\ UNCHANGED linkVars
    /\ UNCHANGED extractVars
    /\ UNCHANGED <<mainVars, raceVars>>

\* _sync_opencode_agents_folder(target_dir) is called on the directory
\* args[1], ./agents holding one file of content args[2], and returns.
Call_sync_opencode_agents_folder ==
    /\ cpc = "called"
    /\ fn = "_sync_opencode_agents_folder"
    /\ \E empty_load \in EmptyLoads :
         ret' = _sync_opencode_agents_folder(args[1], args[2], args[3], empty_load)
    /\ cpc' = "returned"
    /\ UNCHANGED <<fn, args>>
    /\ UNCHANGED linkVars
    /\ UNCHANGED extractVars
    /\ UNCHANGED <<mainVars, raceVars>>

CallNext ==
    \/ Call_sync_opencode_agents_folder
    \/ Call_parse_yaml_frontmatter
    \/ Call_get_output_stem
    \/ Call_compute_expected_md_stems
    \/ Call_write_prompt_file
    \/ Call_format_yaml_description

CallSpec == CallInit /\ [][CallNext]_vars

-----------------------------------------------------------------------------
(* main(): one run over the tool directories of the home directory.        *)
(* A directory is a record: whether it exists, and its entries.            *)

Roots == {".gemini", ".qwen", ".iflow", ".claude", ".roo", ".codex"}

targets_symlink == <<".gemini", ".qwen", ".iflow">>

\* The subdirectories main may create under a tool root.
target_cmds(root) == <<root, IF root = ".codex" THEN "prompts" ELSE "commands">>

target_claude_agents == <<".claude", "agents">>

target_roo_rules == <<".roo", "rules">>

SubDirs == {target_cmds(r) : r \in Roots} \cup {target_claude_agents, target_roo_rules}

DirPaths == {<<r>> : r \in Roots} \cup SubDirs

NoDir == [exists |-> FALSE, entries |-> <<>>]

Dir(entries) == [exists |-> TRUE, entries |-> entries]

\* source_file.name of a source of ./commands
TomlName(stem) == stem \o <<".toml">>

\* A source with a prompt and a description.
DescribedSource(stem) ==
    [stem |-> stem, valid |-> TRUE,
     data |-> [prompt |-> PromptOf(stem), description |-> <<"x", "'">>]]

\* The sources main may find: a shared one, with a description, and a
\* Claude-only one.
MainSources ==
    {DescribedSource(<<"a">>), Source(<<"c", "_", "c", "_", "a">>, TRUE)}

\* The stems a file of a tool directory may have: those of the sources, and
\* b, a second shared source.
HomeStems == Stems \cup {<<"b">>}

\* The names an entry of a directory of links may have.
LinkDirNames == {TomlName(s) : s \in HomeStems} \cup {AgentFile, GoneAgentFile}

\* The names an entry of a directory of Markdown files may have.
HomeMdNames == {MdName(s) : s \in HomeStems}

\* The name of the AGENTS.md link of each tool root.
agents_md_targets ==
    << <<".claude", "CLAUDE.md">>, <<".gemini", "AGENTS.md">>, <<".qwen", "QWEN.md">>,
       <<".codex", "AGENTS.md">>, <<".iflow", "IFLOW.md">> >>

agents_md_source == Path("REPO", "AGENTS.md")

RootNames(root) ==
    {agents_md_targets[i][2] : i \in {j \in 1..Len(agents_md_targets) :
                                          agents_md_targets[j][1] = root}}

\* The entries of a directory main has just made.
EmptyDir(p) ==
    IF Len(p) = 1 THEN [n \in RootNames(p[1]) |-> Absent]
    ELSE IF p = target_roo_rules THEN [n \in {"AGENTS.md"} |-> Absent]
    ELSE IF p[1] \in {".claude", ".roo", ".codex"} /\ p # target_claude_agents
         THEN [n \in HomeMdNames |-> MdAbsent]
         ELSE [n \in LinkDirNames |-> Absent]

\* The entries an earlier run over other sources has left in a directory: a
\* link to a source that is gone, a link to the Claude-only source and a
\* regular file in the way of a link; a file of a source that is gone, a
\* file by the full name of the Claude-only source and an old file of a
\* present one; the link to AGENTS.md.
UsedDir(p) ==
    IF Len(p) = 1 THEN [n \in RootNames(p[1]) |-> Link(agents_md_source)]
    ELSE IF p = target_roo_rules THEN [n \in {"AGENTS.md"} |-> Link(agents_md_source)]
    ELSE IF p = target_claude_agents
         THEN [n \in LinkDirNames |->
                  IF n = GoneAgentFile THEN Link(Path("SRC", n)) ELSE Absent]
    ELSE IF p[1] \in {".claude", ".roo", ".codex"}
         THEN [n \in HomeMdNames |->
                  IF n \in {MdName(<<"a">>), MdName(<<"c", "_">>),
                            MdName(<<"c", "_", "c", "_", "a">>)}
                  THEN MdFile(OldBody) ELSE MdAbsent]
         ELSE [n \in LinkDirNames |->
                  IF n \in {TomlName(<<"c", "_">>), TomlName(<<"c", "_", "c", "_", "a">>)}
                  THEN Link(Path("SRC", n))
                  ELSE IF n = TomlName(<<"a">>) THEN RegularFile ELSE Absent]

\* A tool before the run: not installed, installed and never synced, or
\* synced before.
ToolStates == {"missing", "root", "used"}

HomeOf(ts) ==
    [p \in DirPaths |->
        IF Len(p) = 1
        THEN IF ts[p[1]] = "missing" THEN NoDir
             ELSE Dir(IF ts[p[1]] = "used" THEN UsedDir(p) ELSE EmptyDir(p))
        ELSE IF ts[p[1]] = "used" THEN Dir(UsedDir(p)) ELSE NoDir]

HomeStates == {HomeOf(ts) : ts \in [Roots -> ToolStates]}

\* p.mkdir(parents=True, exist_ok=True) of a subdirectory of an existing root
mkdir(h, p) == IF h[p].exists THEN h ELSE [h EXCEPT ![p] = Dir(EmptyDir(p))]

RECURSIVE SyncFrom(_, _, _)
\* The creation loop of _sync_symlinks_to_dir from its i-th source on, no
\* operation failing.
SyncFrom(st, srcs, i) ==
    IF i > Len(srcs) THEN st
    ELSE SyncFrom(SyncOne(st, srcs[i], TRUE, TRUE), srcs, i + 1)

\* _sync_symlinks_to_dir(source_files, cmd_dir, source_dir_resolved) on the
\* directory p of h, no operation failing. "SRC" is the source directory of
\* the call: ./commands, or ./agents for the agents folder.
_sync_symlinks_to_dir(h, p, srcs) ==
    LET made == mkdir(h, p)
        st == _cleanup_stale_symlinks(
                  SyncFrom(St(made[p].entries, FALSE, FALSE), srcs, 1), srcs, {})
    IN  [made EXCEPT ![p] = Dir(st.dir)]

\* Mutant: the root directory is not tested; mkdir(parents=True) makes it.
SyncSymlinkTarget_NoRootCheck(h, root, shared) ==
    _sync_symlinks_to_dir(
        IF h[<<root>>].exists THEN h ELSE [h EXCEPT ![<<root>>] = Dir(EmptyDir(<<root>>))],
        target_cmds(root), shared)

\* One iteration of the loop of _sync_symlink_targets.
SyncSymlinkTarget(h, root, shared) ==
    IF h[<<root>>].exists
    THEN _sync_symlinks_to_dir(h, target_cmds(root), shared)
    ELSE h

RECURSIVE ExtractFrom(_, _, _, _, _, _, _)
\* The loop of extract_prompts_to_md from its i-th source on, no operation
\* failing: the directory and created_md_files after it.
ExtractFrom(st, created, toml, prefix, include_description, yaml, i) ==
    IF i > Len(toml) THEN [st |-> st, created |-> created]
    ELSE LET r == _process_source_file(st, toml[i], prefix, include_description, yaml, "ok")
         IN  ExtractFrom(r.st,
                         IF Truthy(r.result) THEN created \cup {r.result[1]} ELSE created,
                         toml, prefix, include_description, yaml, i + 1)

\* The common body of extract_prompts_to_md and
\* extract_prompts_to_md_with_description on the directory p of h.
ExtractPass(h, p, toml, prefix, include_description, yaml) ==
    LET made == mkdir(h, p)
        x == ExtractFrom(St(made[p].entries, FALSE, FALSE), {}, toml, prefix,
                         include_description, yaml, 1)
        st == _cleanup_stale_md_files(x.st, toml, x.created, prefix, {})
    IN  [made EXCEPT ![p] = Dir(st.dir)]

extract_prompts_to_md(h, p, toml, prefix) ==
    ExtractPass(h, p, toml, prefix, FALSE, "no PyYAML")

extract_prompts_to_md_with_description(h, p, toml, prefix, yaml) ==
    ExtractPass(h, p, toml, prefix, TRUE, yaml)

\* _sync_agents_folder(target_claude_agents)
_sync_agents_folder(h, agents) ==
    IF ~agents.exists THEN h
    ELSE IF agents.files = <<>> THEN h
    ELSE _sync_symlinks_to_dir(h, target_claude_agents, agents.files)

\* Mutant: an entry found at the path of the link is replaced by the link.
_create_agents_md_link_Replaces(h, p, target_file_name) ==
    IF ~h[p].exists THEN h
    ELSE [h EXCEPT ![p] = Dir([h[p].entries EXCEPT ![target_file_name] =
                                  Link(agents_md_source)])]

\* _create_agents_md_link(agents_md_source, root_dir, target_file_name)
_create_agents_md_link(h, p, target_file_name) ==
    IF ~h[p].exists THEN h
    ELSE IF h[p].entries[target_file_name].kind = "absent"
         THEN [h EXCEPT ![p] = Dir(safe_symlink(St(h[p].entries, FALSE, FALSE),
                                       agents_md_source, target_file_name, TRUE).dir)]
         ELSE h

\* What _create_agents_md_link returns.
CreateResult(h, p) == h[p].exists

\* Mutant: only a symbolic link is removed, a regular file is left.
_remove_agents_md_link_LinksOnly(h, p, target_file_name) ==
    IF h[p].exists /\ h[p].entries[target_file_name].kind = "link"
    THEN [h EXCEPT ![p] = Dir([h[p].entries EXCEPT ![target_file_name] = Absent])]
    ELSE h

\* _remove_agents_md_link(root_dir, target_file_name)
_remove_agents_md_link(h, p, target_file_name) ==
    IF h[p].exists /\ h[p].entries[target_file_name].kind # "absent"
    THEN [h EXCEPT ![p] = Dir(safe_remove(St(h[p].entries, FALSE, FALSE),
                                  target_file_name, TRUE).dir)]
    ELSE h

RECURSIVE CreateLinksFrom(_, _)
CreateLinksFrom(h, i) ==
    IF i > Len(agents_md_targets) THEN h
    ELSE CreateLinksFrom(
             _create_agents_md_link(h, <<agents_md_targets[i][1]>>, agents_md_targets[i][2]),
             i + 1)

RECURSIVE RemoveLinksFrom(_, _)
RemoveLinksFrom(h, i) ==
    IF i > Len(agents_md_targets) THEN h
    ELSE RemoveLinksFrom(
             _remove_agents_md_link(h, <<agents_md_targets[i][1]>>, agents_md_targets[i][2]),
             i + 1)

\* _sync_agents_md_links(home)
_sync_agents_md_links(h, source_exists) ==
    IF source_exists
    THEN LET h1 == CreateLinksFrom(h, 1)
         IN  IF h1[<<".roo">>].exists
             THEN _create_agents_md_link(mkdir(h1, target_roo_rules),
                                         target_roo_rules, "AGENTS.md")
             ELSE h1
    ELSE LET h1 == RemoveLinksFrom(h, 1)
         IN  IF h1[<<".roo">>].exists
             THEN _remove_agents_md_link(h1, target_roo_rules, "AGENTS.md")
             ELSE h1

IsClaudeOnly(f) == StartsWith(f.stem, CLAUDE_PREFIX)

\* Mutant: every source is a shared one.
IsShared_Every(f) == TRUE

IsShared(f) == ~StartsWith(f.stem, CLAUDE_PREFIX)

claude_only_files == SelectSeq(toml_files, IsClaudeOnly)

shared_files == SelectSeq(toml_files, IsShared)

\* source_file.name of each shared source, in order
RECURSIVE TomlNames(_)
TomlNames(toml) ==
    IF toml = <<>> THEN <<>> ELSE <<TomlName(Head(toml).stem)>> \o TomlNames(Tail(toml))

MainInit ==
    /\ commands_exists \in BOOLEAN
    /\ toml_files \in
         IF commands_exists
         THEN {t \in SeqsUpTo(MainSources, Cardinality(MainSources)) : Distinct(t)}
         ELSE {<<>>}
    /\ first_toml_files = toml_files
    /\ agents_dir \in {[exists |-> FALSE, files |-> <<>>],
                       [exists |-> TRUE, files |-> <<>>],
                       [exists |-> TRUE, files |-> <<AgentFile>>]}
    /\ srcFiles = {TomlName(s) : s \in StemsOfSeq(toml_files)} \cup SeqToSet(agents_dir.files)
    /\ agents_md_exists \in BOOLEAN
    /\ has_yaml \in {"no PyYAML", "PyYAML"}
    /\ home \in HomeStates
    /\ home0 = home
    /\ mpc = "start"
    /\ mi = 1
    \* the link reconciler is not run on its own
    /\ source_files = <<>>
    /\ cmd_dir = [n \in Names |-> Absent]
    /\ cmd_dir0 = cmd_dir
    /\ lpc = "idle"
    /\ li = 1
    /\ lrun = 1
    /\ lmutRuns = {}
    /\ lfailed = FALSE
    /\ lcfailed = FALSE
    /\ lprevOk = TRUE
    \* the extract reconciler is not run on its own
    /\ strip_prefix = None
    /\ md_dir = [n \in MdNames |-> MdAbsent]
    /\ md_dir0 = md_dir
    /\ created_md_files = {}
    /\ epc = "idle"
    /\ ei = 1
    /\ erun = 1
    /\ emutRuns = {}
    /\ efailed = FALSE
    /\ ecfailed = FALSE
    /\ eprevOk = TRUE
    \* no helper is called on its own
    /\ fn = "none"
    /\ args = <<>>
    /\ ret = <<>>
    /\ cpc = "idle"
    \* no two passes run at once
    /\ procs = <<>>

\* The two early returns of main, and the partition of the sources.
MainStart ==
    /\ mpc = "start"
    /\ mpc' = IF ~commands_exists \/ toml_files = <<>> THEN "done" ELSE "symlinks"
    /\ UNCHANGED <<commands_exists, agents_dir, agents_md_exists, has_yaml, home, home0, mi>>
    /\ UNCHANGED <<linkVars, extractVars, callVars, raceVars>>

\* 1. _sync_symlink_targets: one iteration of its loop.
MainSymlinkTarget ==
    /\ mpc = "symlinks"
    /\ home' = SyncSymlinkTarget(home, targets_symlink[mi], TomlNames(shared_files))
    /\ mi' = mi + 1
    /\ mpc' = IF mi = Len(targets_symlink) THEN "claude" ELSE "symlinks"
    /\ UNCHANGED <<commands_exists, agents_dir, agents_md_exists, has_yaml, home0>>
    /\ UNCHANGED <<linkVars, extractVars, callVars, raceVars>>

\* 2. Claude: all files, the claude_ prefix stripped.
MainClaude ==
    /\ mpc = "claude"
    /\ home' = IF home[<<".claude">>].exists
               THEN extract_prompts_to_md(home, target_cmds(".claude"), toml_files,
                                          Some(CLAUDE_PREFIX))
               ELSE home
    /\ mpc' = "roo"
    /\ UNCHANGED <<commands_exists, agents_dir, agents_md_exists, has_yaml, home0, mi>>
    /\ UNCHANGED <<linkVars, extractVars, callVars, raceVars>>

\* 3. Roo: the shared files.
MainRoo ==
    /\ mpc = "roo"
    /\ home' = IF home[<<".roo">>].exists
               THEN extract_prompts_to_md(home, target_cmds(".roo"), shared_files, None)
               ELSE home
    /\ mpc' = "codex"
    /\ UNCHANGED <<commands_exists, agents_dir, agents_md_exists, has_yaml, home0, mi>>
    /\ UNCHANGED <<linkVars, extractVars, callVars, raceVars>>

\* 4. Codex: the shared files, with the description.
MainCodex ==
    /\ mpc = "codex"
    /\ home' = IF home[<<".codex">>].exists
               THEN extract_prompts_to_md_with_description(
                        home, target_cmds(".codex"), shared_files, None, has_yaml)
               ELSE home
    /\ mpc' = "agents"
    /\ UNCHANGED <<commands_exists, agents_dir, agents_md_exists, has_yaml, home0, mi>>
    /\ UNCHANGED <<linkVars, extractVars, callVars, raceVars>>

\* 5. The agents folder.
MainAgents ==
    /\ mpc = "agents"
    /\ home' = IF home[<<".claude">>].exists
               THEN _sync_agents_folder(home, agents_dir)
               ELSE home
    /\ mpc' = "agents_md"
    /\ UNCHANGED <<commands_exists, agents_dir, agents_md_exists, has_yaml, home0, mi>>
    /\ UNCHANGED <<linkVars, extractVars, callVars, raceVars>>

\* 6. The AGENTS.md links; main returns.
MainAgentsMd ==
    /\ mpc = "agents_md"
    /\ home' = _sync_agents_md_links(home, agents_md_exists)
    /\ mpc' = "done"
    /\ UNCHANGED <<commands_exists, agents_dir, agents_md_exists, has_yaml, home0, mi>>
    /\ UNCHANGED <<linkVars, extractVars, callVars, raceVars>>

MainNext ==
    \/ MainStart
    \/ MainSymlinkTarget
    \/ MainClaude
    \/ MainRoo
    \/ MainCodex
    \/ MainAgents
    \/ MainAgentsMd

MainSpec == MainInit /\ [][MainNext]_vars

-----------------------------------------------------------------------------
(* The passes of steps 1 and 2 of main, one step of a pass at a time: the   *)
(* mkdir of a target directory, one iteration of the loop over the sources, *)
(* the cleanup sweep. The process may be terminated from outside, between   *)
(* two steps or between two filesystem operations of a step; main is then   *)
(* started again with the same sources.                                     *)

\* The tool roots whose commands directory the passes fill, in the order of
\* main: the targets of _sync_symlink_targets, then Claude.
PassTargets == targets_symlink \o <<".claude">>

PassSources ==
    {Source(<<"a">>, TRUE), Source(<<"b">>, TRUE),
     Source(<<"c", "_", "a">>, TRUE), Source(<<"c", "_", "c", "_", "a">>, TRUE)}

\* The tool directories before the first run: the tools of the later steps
\* are not installed, and iFlow is in the state Qwen is in.
PassHomes ==
    {HomeOf(ts) : ts \in {t \in [Roots -> ToolStates] :
                      /\ \A r \in Roots \ SeqToSet(PassTargets) : t[r] = "missing"
                      /\ t[".iflow"] = t[".qwen"]}}

\* The directory of the pass main is in.
PassDir == target_cmds(PassTargets[mi])

\* The pass is one of _sync_symlinks_to_dir (step 1), not the extraction of
\* step 2.
IsLinkPass == mi <= Len(targets_symlink)

\* The sources the pass goes through, in order.
PassFiles == IF IsLinkPass THEN shared_files ELSE toml_files

PassSt == St(home[PassDir].entries, FALSE, FALSE)

\* The whole pass over the i-th target, no operation failing.
PassOver(h, i) ==
    IF i <= Len(targets_symlink)
    THEN SyncSymlinkTarget(h, targets_symlink[i], TomlNames(shared_files))
    ELSE IF h[<<".claude">>].exists
         THEN extract_prompts_to_md(h, target_cmds(".claude"), toml_files,
                                    Some(CLAUDE_PREFIX))
         ELSE h

RECURSIVE PassesFrom(_, _)
\* Steps 1 and 2 of main from the i-th target on, uninterrupted.
PassesFrom(h, i) ==
    IF i > Len(PassTargets) THEN h ELSE PassesFrom(PassOver(h, i), i + 1)

PassInit ==
    /\ commands_exists = TRUE
    /\ toml_files \in {t \in SeqsUpTo(PassSources, MaxSources) : Distinct(t) /\ t # <<>>}
    /\ first_toml_files = toml_files
    /\ agents_dir = [exists |-> FALSE, files |-> <<>>]
    /\ srcFiles = {TomlName(s) : s \in StemsOfSeq(toml_files)}
    /\ agents_md_exists = FALSE
    /\ has_yaml = "no PyYAML"
    /\ home \in PassHomes
    /\ home0 = home
    /\ mpc = "enter"
    /\ mi = 1
    /\ ei = 1
    /\ erun = 1
    /\ created_md_files = {}
    \* the link reconciler is not run on its own
    /\ source_files = <<>>
    /\ cmd_dir = [n \in Names |-> Absent]
    /\ cmd_dir0 = cmd_dir
    /\ lpc = "idle"
    /\ li = 1
    /\ lrun = 1
    /\ lmutRuns = {}
    /\ lfailed = FALSE
    /\ lcfailed = FALSE
    /\ lprevOk = TRUE
    \* the extract reconciler is not run on its own
    /\ strip_prefix = None
    /\ md_dir = [n \in MdNames |-> MdAbsent]
    /\ md_dir0 = md_dir
    /\ epc = "idle"
    /\ emutRuns = {}
    /\ efailed = FALSE
    /\ ecfailed = FALSE
    /\ eprevOk = TRUE
    \* no helper is called on its own
    /\ fn = "none"
    /\ args = <<>>
    /\ ret = <<>>
    /\ cpc = "idle"
    \* no two passes run at once
    /\ procs = <<>>

PassUnchanged ==
    /\ UNCHANGED <<commands_exists, agents_dir, agents_md_exists, has_yaml, home0>>
    /\ UNCHANGED <<linkVars, callVars, raceVars>>
    /\ UNCHANGED <<toml_files, first_toml_files, strip_prefix, md_dir, md_dir0, epc,
                   emutRuns, efailed, ecfailed, eprevOk>>

\* The pass over the current target is over: main goes to the next target,
\* or past step 2.
PassAdvance ==
    /\ mi' = IF mi = Len(PassTargets) THEN mi ELSE mi + 1
    /\ mpc' = IF mi = Len(PassTargets) THEN "done" ELSE "enter"
    /\ ei' = 1
    /\ created_md_files' = {}

\* The process is started again: main from its first pass.
PassRestart ==
    /\ erun < MaxRuns
    /\ erun' = erun + 1
    /\ mi' = 1
    /\ mpc' = "enter"
    /\ ei' = 1
    /\ created_md_files' = {}

\* The test of the root directory and the mkdir of the target directory.
PassEnter ==
    /\ mpc = "enter"
    /\ IF home[<<PassTargets[mi]>>].exists
       THEN /\ home' = mkdir(home, PassDir)
            /\ mpc' = "loop"
            /\ ei' = 1
            /\ created_md_files' = {}
            /\ UNCHANGED mi
       ELSE /\ UNCHANGED home
            /\ PassAdvance
    /\ UNCHANGED erun
    /\ PassUnchanged

\* One iteration of the loop over the sources: of the creation loop of
\* _sync_symlinks_to_dir, or of the loop of extract_prompts_to_md.
PassSource ==
    /\ mpc = "loop"
    /\ ei <= Len(PassFiles)
    /\ IF IsLinkPass
       THEN /\ home' = [home EXCEPT ![PassDir] =
                           Dir(SyncOne(PassSt, TomlName(PassFiles[ei].stem), TRUE, TRUE).dir)]
            /\ UNCHANGED created_md_files
       ELSE LET r == _process_source_file(PassSt, PassFiles[ei], Some(CLAUDE_PREFIX),
                                          FALSE, "no PyYAML", "ok")
            IN  /\ home' = [home EXCEPT ![PassDir] = Dir(r.st.dir)]
                /\ created_md_files' = IF Truthy(r.result)
                                       THEN created_md_files \cup {r.result[1]}
                                       ELSE created_md_files
    /\ ei' = ei + 1
    /\ UNCHANGED <<mpc, mi, erun>>
    /\ PassUnchanged

\* The cleanup sweep that follows the loop.
PassCleanup ==
    /\ mpc = "loop"
    /\ ei > Len(PassFiles)
    /\ home' = [home EXCEPT ![PassDir] =
                   Dir(IF IsLinkPass
                       THEN _cleanup_stale_symlinks(PassSt, TomlNames(PassFiles), {}).dir
                       ELSE _cleanup_stale_md_files(PassSt, PassFiles, created_md_files,
                                                    Some(CLAUDE_PREFIX), {}).dir)]
    /\ PassAdvance
    /\ UNCHANGED erun
    /\ PassUnchanged

\* The process is terminated between two steps.
PassKill ==
    /\ mpc \in {"enter", "loop"}
    /\ PassRestart
    /\ UNCHANGED home
    /\ PassUnchanged

\* The process is terminated inside an iteration: after the unlink of the
\* entry in the way of a link and before os.symlink, or after open() has
\* truncated or created the file and before the write.
PassKillInSource ==
    /\ mpc = "loop"
    /\ ei <= Len(PassFiles)
    /\ IF IsLinkPass
       THEN LET name == TomlName(PassFiles[ei].stem)
            IN  /\ PassSt.dir[name].kind # "absent"
                /\ CheckExisting(PassSt.dir, name, Resolve(SourcePath(name))) # "same"
                /\ home' = [home EXCEPT ![PassDir] = Dir(safe_remove(PassSt, name, TRUE).dir)]
       ELSE LET r == _process_source_file(PassSt, PassFiles[ei], Some(CLAUDE_PREFIX),
                                          FALSE, "no PyYAML", "write")
            IN  /\ r.st.dir # PassSt.dir
                /\ home' = [home EXCEPT ![PassDir] = Dir(r.st.dir)]
    /\ PassRestart
    /\ PassUnchanged

\* The process is terminated inside the cleanup sweep: some of the stale
\* entries are removed, the entries of left are not.
PassKillInCleanup ==
    /\ mpc = "loop"
    /\ ei > Len(PassFiles)
    /\ LET stale == IF IsLinkPass
                    THEN StaleLinks(PassSt.dir, TomlNames(PassFiles))
                    ELSE StaleMdFiles(PassSt.dir, PassFiles, created_md_files,
                                      Some(CLAUDE_PREFIX))
       IN  \E left \in SUBSET stale :
             /\ left # {} /\ left # stale
             /\ home' = [home EXCEPT ![PassDir] =
                   Dir(IF IsLinkPass
                       THEN _cleanup_stale_symlinks(PassSt, TomlNames(PassFiles), left).dir
                       ELSE _cleanup_stale_md_files(PassSt, PassFiles, created_md_files,
                                                    Some(CLAUDE_PREFIX), left).dir)]
    /\ PassRestart
    /\ PassUnchanged

PassNext ==
    \/ PassEnter
    \/ PassSource
    \/ PassCleanup
    \/ PassKill
    \/ PassKillInSource
    \/ PassKillInCleanup

PassSpec == PassInit /\ [][PassNext]_vars

-----------------------------------------------------------------------------
(* Two runs of _sync_symlinks_to_dir, or two of extract_prompts_to_md, at   *)
(* once, on the same sources and the same target directory, one filesystem  *)
(* operation of one process at a time. A process is a record: pc its        *)
(* position, i the index of its source, cur its current_target, items what  *)
(* is left of its listing of the directory, item the entry it is at, fd the *)
(* inode of the file it has open, created its created_md_files, sweeping    *)
(* whether it is in the cleanup sweep, logged whether it has printed an     *)
(* error.                                                                   *)

Procs == {1, 2}

\* The directories the two runs may find: at a an entry of each kind, at b
\* a link through the alias of the source directory, at c a stale link.
RaceDirs ==
    {d \in [Names -> Entries] :
        /\ d["a"] \in {Absent, RegularFile, Link(Path("SRC", "a")),
                       Link(Path("OTHER", "a")), Link(Path("OTHER", "z"))}
        /\ d["b"] \in {Absent, Link(Path("ALIAS", "b"))}
        /\ d["c"] \in {Absent, Link(Path("SRC", "c"))}}

\* os.stat of a path, following a link found at a path of the target
\* directory.
RaceStat(dir, p) ==
    IF p.dir = "TGT" /\ dir[p.name].kind = "link"
    THEN Stat(dir, Resolve(dir[p.name].to))
    ELSE Stat(dir, p)

\* Mutant: safe_remove without its try: the OSError of unlink is not caught.
Handled_UnlinkUnguarded(site) == site \in {"resolve", "samefile", "symlink", "target"}

\* The calls made inside a try whose except clause takes OSError: those of
\* 254-282, of safe_symlink, of safe_remove, of 233-238. The tests of 252
\* and 232 and iterdir() are outside.
Handled(site) == site \in {"resolve", "samefile", "symlink", "unlink", "rm_check", "target"}

\* The position after an operation that raised OSError at a call site.
AfterError(pr, site, next) ==
    IF Handled(site) THEN [pr EXCEPT !.pc = next, !.logged = TRUE]
    ELSE [pr EXCEPT !.pc = "crashed"]

\* The loop goes to its next source, or the run to its cleanup sweep.
NextSource(pr) ==
    [pr EXCEPT !.i = pr.i + 1, !.cur = NoPath,
               !.pc = IF pr.i + 1 > Len(source_files) THEN "iterdir" ELSE "exists"]

\* The sweep goes to its next entry, or returns.
NextItem(pr) == [pr EXCEPT !.item = "-", !.pc = IF pr.items = {} THEN "done" ELSE "item"]

\* The extraction loop goes to its next source, or the run to its sweep.
NextToml(pr) ==
    [pr EXCEPT !.i = pr.i + 1, !.item = "-", !.fd = <<>>,
               !.pc = IF pr.i + 1 > Len(toml_files) THEN "glob" ELSE "open"]

\* The sweep of the extract pass goes to its next file, or returns.
NextMd(pr) == [pr EXCEPT !.item = "-", !.pc = IF pr.items = {} THEN "done" ELSE "md_item"]

\* A regular file of the target directory and the inode it is.
RaceFile(body, ino) == [kind |-> "file", body |-> body, ino |-> ino]

\* write() of a text on a file opened with "w", the position at 0: what the
\* file holds beyond the text stays.
WriteAtStart(body, text) == text \o SubSeq(body, Len(text) + 1, Len(body))

\* The directory without the inodes.
Plain(dir) ==
    [n \in DOMAIN dir |-> IF dir[n].kind = "file" THEN MdFile(dir[n].body) ELSE MdAbsent]

\* The sources of the two extract passes, and the directories they may find.
RaceTomls ==
    {t \in SeqsUpTo({Source(<<"a">>, TRUE), Source(<<"c", "_", "a">>, TRUE),
                     Source(<<"c", "_", "c", "_", "a">>, TRUE)}, MaxSources) : Distinct(t)}

RaceMdDirs ==
    {[n \in MdNames |-> IF n \in prior THEN RaceFile(OldBody, <<0, 0>>) ELSE MdAbsent] :
        prior \in SUBSET {MdName(<<"a">>), MdName(<<"c", "_", "a">>),
                          MdName(<<"c", "_", "c", "_", "a">>)}}

\* The path safe_remove or the loop is at.
PathOf(pr) == IF pr.sweeping THEN pr.item ELSE source_files[pr.i]

\* Where a process goes after safe_remove.
AfterRemove(pr) == IF pr.sweeping THEN NextItem(pr) ELSE [pr EXCEPT !.pc = "symlink"]

RaceUnchanged ==
    /\ UNCHANGED <<srcFiles, source_files, cmd_dir0, lpc, li, lrun, lmutRuns, lfailed,
                   lcfailed, lprevOk>>
    /\ UNCHANGED <<toml_files, first_toml_files, strip_prefix, md_dir0, created_md_files,
                   epc, ei, erun, emutRuns, efailed, ecfailed, eprevOk>>
    /\ UNCHANGED <<callVars, mainVars>>

RaceInit ==
    /\ \E extract \in BOOLEAN :
         /\ srcFiles = IF extract THEN {} ELSE {"a", "b"}
         /\ source_files \in IF extract THEN {<<>>}
                              ELSE {s \in SeqsUpTo(srcFiles, MaxSources) : Distinct(s)}
         /\ cmd_dir \in IF extract THEN {[n \in Names |-> Absent]} ELSE RaceDirs
         /\ toml_files \in IF extract THEN RaceTomls ELSE {<<>>}
         /\ strip_prefix = IF extract THEN Some(CLAUDE_PREFIX) ELSE None
         /\ md_dir \in IF extract THEN RaceMdDirs ELSE {[n \in MdNames |-> MdAbsent]}
         /\ procs = [p \in Procs |->
                       [pc |-> IF extract
                               THEN IF toml_files = <<>> THEN "glob" ELSE "open"
                               ELSE IF source_files = <<>> THEN "iterdir" ELSE "exists",
                        i |-> 1, cur |-> NoPath, items |-> {}, item |-> "-",
                        fd |-> <<>>, created |-> {},
                        sweeping |-> FALSE, logged |-> FALSE]]
    /\ cmd_dir0 = cmd_dir
    /\ first_toml_files = toml_files
    /\ md_dir0 = md_dir
    /\ lpc = "idle"
    /\ li = 1
    /\ lrun = 1
    /\ lmutRuns = {}
    /\ lfailed = FALSE
    /\ lcfailed = FALSE
    /\ lprevOk = TRUE
    /\ created_md_files = {}
    /\ epc = "idle"
    /\ ei = 1
    /\ erun = 1
    /\ emutRuns = {}
    /\ efailed = FALSE
    /\ ecfailed = FALSE
    /\ eprevOk = TRUE
    \* no helper is called on its own
    /\ fn = "none"
    /\ args = <<>>
    /\ ret = <<>>
    /\ cpc = "idle"
    \* main is not run
    /\ commands_exists = FALSE
    /\ agents_dir = [exists |-> FALSE, files |-> <<>>]
    /\ agents_md_exists = FALSE
    /\ has_yaml = "no PyYAML"
    /\ home = <<>>
    /\ home0 = <<>>
    /\ mpc = "idle"
    /\ mi = 1

\* link_name.exists(): os.stat, which follows a link.
RaceExists ==
    \E p \in Procs :
        LET pr == procs[p]
            name == source_files[pr.i]
        IN  /\ pr.pc = "exists"
            /\ procs' = [procs EXCEPT ![p] =
                  [pr EXCEPT !.pc = IF RaceStat(cmd_dir, Path("TGT", name)) # <<"ENOENT">>
                                    THEN "resolve" ELSE "is_symlink"]]
            /\ UNCHANGED <<cmd_dir, md_dir>>
            /\ RaceUnchanged

\* link_name.is_symlink(), the second operand of the or.
RaceIsSymlink ==
    \E p \in Procs :
        LET pr == procs[p]
            name == source_files[pr.i]
        IN  /\ pr.pc = "is_symlink"
            /\ procs' = [procs EXCEPT ![p] =
                  [pr EXCEPT !.pc = IF cmd_dir[name].kind = "link"
                                    THEN "resolve" ELSE "symlink"]]
            /\ UNCHANGED <<cmd_dir, md_dir>>
            /\ RaceUnchanged

\* current_target = link_name.resolve()
RaceResolve ==
    \E p \in Procs :
        LET pr == procs[p]
            name == source_files[pr.i]
        IN  /\ pr.pc = "resolve"
            /\ procs' = [procs EXCEPT ![p] =
                  [pr EXCEPT !.pc = "samefile", !.cur = ResolveEntry(cmd_dir, name)]]
            /\ UNCHANGED <<cmd_dir, md_dir>>
            /\ RaceUnchanged

\* os.path.samefile(current_target, expected_target)
RaceSamefile ==
    \E p \in Procs :
        LET pr == procs[p]
            name == source_files[pr.i]
            s == RaceStat(cmd_dir, pr.cur)
            t == RaceStat(cmd_dir, Resolve(SourcePath(name)))
        IN  /\ pr.pc = "samefile"
            /\ procs' = [procs EXCEPT ![p] =
                  IF s = <<"ENOENT">> \/ t = <<"ENOENT">>
                  THEN AfterError(pr, "samefile", "rm_check")
                  ELSE IF s = t THEN NextSource(pr)
                  ELSE [pr EXCEPT !.pc = "rm_check"]]
            /\ UNCHANGED <<cmd_dir, md_dir>>
            /\ RaceUnchanged

\* safe_remove: file_path.is_symlink() or file_path.is_file()
RaceRmCheck ==
    \E p \in Procs :
        LET pr == procs[p]
            path == PathOf(pr)
        IN  /\ pr.pc = "rm_check"
            /\ procs' = [procs EXCEPT ![p] =
                  IF cmd_dir[path].kind = "link"
                     \/ RaceStat(cmd_dir, Path("TGT", path)) # <<"ENOENT">>
                  THEN [pr EXCEPT !.pc = "unlink"]
                  ELSE AfterRemove(pr)]
            /\ UNCHANGED <<cmd_dir, md_dir>>
            /\ RaceUnchanged

\* safe_remove: file_path.unlink(), FileNotFoundError when the entry is gone
RaceUnlink ==
    \E p \in Procs :
        LET pr == procs[p]
            path == PathOf(pr)
        IN  /\ pr.pc = "unlink"
            /\ IF cmd_dir[path].kind = "absent"
               THEN /\ procs' = [procs EXCEPT ![p] =
                          AfterError(pr, "unlink", AfterRemove(pr).pc)]
                    /\ UNCHANGED cmd_dir
               ELSE /\ procs' = [procs EXCEPT ![p] = AfterRemove(pr)]
                    /\ cmd_dir' = [cmd_dir EXCEPT ![path] = Absent]
            /\ UNCHANGED md_dir
            /\ RaceUnchanged

\* safe_symlink: os.symlink, FileExistsError when an entry is there
RaceSymlink ==
    \E p \in Procs :
        LET pr == procs[p]
            name == source_files[pr.i]
        IN  /\ pr.pc = "symlink"
            /\ IF cmd_dir[name].kind # "absent"
               THEN /\ procs' = [procs EXCEPT ![p] =
                          AfterError(NextSource(pr), "symlink", NextSource(pr).pc)]
                    /\ UNCHANGED cmd_dir
               ELSE /\ procs' = [procs EXCEPT ![p] = NextSource(pr)]
                    /\ cmd_dir' = [cmd_dir EXCEPT ![name] = Link(Resolve(SourcePath(name)))]
            /\ UNCHANGED md_dir
            /\ RaceUnchanged

\* _cleanup_stale_symlinks: cmd_dir.iterdir() lists the directory
RaceIterdir ==
    \E p \in Procs :
        LET pr == procs[p]
            listed == {n \in Names : cmd_dir[n].kind # "absent"}
        IN  /\ pr.pc = "iterdir"
            /\ procs' = [procs EXCEPT ![p] =
                  NextItem([pr EXCEPT !.items = listed, !.sweeping = TRUE])]
            /\ UNCHANGED <<cmd_dir, md_dir>>
            /\ RaceUnchanged

\* The next entry of the listing, in the order of the operating system, and
\* item.is_symlink()
RaceItem ==
    \E p \in Procs :
        LET pr == procs[p]
        IN  /\ pr.pc = "item"
            /\ \E item \in pr.items :
                 LET rest == [pr EXCEPT !.items = pr.items \ {item}, !.item = item]
                 IN  procs' = [procs EXCEPT ![p] =
                         IF cmd_dir[item].kind = "link"
                         THEN [rest EXCEPT !.pc = "target"]
                         ELSE NextItem(rest)]
            /\ UNCHANGED <<cmd_dir, md_dir>>
            /\ RaceUnchanged

\* target = item.resolve() and the test of its parent and its name
RaceTarget ==
    \E p \in Procs :
        LET pr == procs[p]
            target == ResolveEntry(cmd_dir, pr.item)
        IN  /\ pr.pc = "target"
            /\ procs' = [procs EXCEPT ![p] =
                  IF target.dir = source_dir_resolved
                     /\ target.name \notin SeqToSet(source_files)
                  THEN [pr EXCEPT !.pc = "rm_check"]
                  ELSE NextItem(pr)]
            /\ UNCHANGED <<cmd_dir, md_dir>>
            /\ RaceUnchanged

\* _process_source_file: the source is read and, if it is a command
\* definition, open(target_file, "w") truncates or creates the file
RaceOpen ==
    \E p \in Procs :
        LET pr == procs[p]
            f == toml_files[pr.i]
            stem == _get_output_stem(f.stem, strip_prefix)
        IN  /\ pr.pc = "open"
            /\ IF f.valid /\ "prompt" \in DOMAIN f.data /\ Truthy(stem)
               THEN LET name == MdName(stem[1])
                        ino == IF md_dir[name].kind = "file" THEN md_dir[name].ino
                               ELSE <<p, pr.i>>
                    IN  /\ md_dir' = [md_dir EXCEPT ![name] = RaceFile(<<>>, ino)]
                        /\ procs' = [procs EXCEPT ![p] =
                              [pr EXCEPT !.pc = "write", !.item = name, !.fd = ino]]
               ELSE /\ procs' = [procs EXCEPT ![p] = NextToml(pr)]
                    /\ UNCHANGED md_dir
            /\ UNCHANGED cmd_dir
            /\ RaceUnchanged

\* f.write(prompt_content) and the close of the file: the text goes to the
\* start of the file that was opened, which may have lost its name since.
RaceWrite ==
    \E p \in Procs :
        LET pr == procs[p]
            name == pr.item
            text == toml_files[pr.i].data.prompt
        IN  /\ pr.pc = "write"
            /\ md_dir' = IF md_dir[name].kind = "file" /\ md_dir[name].ino = pr.fd
                         THEN [md_dir EXCEPT ![name] =
                                  RaceFile(WriteAtStart(md_dir[name].body, text), pr.fd)]
                         ELSE md_dir
            /\ procs' = [procs EXCEPT ![p] =
                  NextToml([pr EXCEPT !.created = pr.created \cup {name}])]
            /\ UNCHANGED cmd_dir
            /\ RaceUnchanged

\* _cleanup_stale_md_files: target_cmds_dir.glob("*.md") lists the directory
RaceGlob ==
    \E p \in Procs :
        LET pr == procs[p]
            listed == {n \in MdNames : md_dir[n].kind = "file"}
        IN  /\ pr.pc = "glob"
            /\ procs' = [procs EXCEPT ![p] =
                  NextMd([pr EXCEPT !.items = listed, !.sweeping = TRUE])]
            /\ UNCHANGED <<cmd_dir, md_dir>>
            /\ RaceUnchanged

\* The next file of the listing and _should_remove_md_file
RaceMdItem ==
    \E p \in Procs :
        LET pr == procs[p]
        IN  /\ pr.pc = "md_item"
            /\ \E item \in pr.items :
                 LET rest == [pr EXCEPT !.items = pr.items \ {item}, !.item = item]
                 IN  procs' = [procs EXCEPT ![p] =
                         IF _should_remove_md_file(item, toml_files, pr.created, strip_prefix)
                         THEN [rest EXCEPT !.pc = "md_rm_check"]
                         ELSE NextMd(rest)]
            /\ UNCHANGED <<cmd_dir, md_dir>>
            /\ RaceUnchanged

\* safe_remove of a stale file: file_path.is_symlink() or file_path.is_file()
RaceMdRmCheck ==
    \E p \in Procs :
        LET pr == procs[p]
        IN  /\ pr.pc = "md_rm_check"
            /\ procs' = [procs EXCEPT ![p] =
                  IF md_dir[pr.item].kind = "file"
                  THEN [pr EXCEPT !.pc = "md_unlink"]
                  ELSE NextMd(pr)]
            /\ UNCHANGED <<cmd_dir, md_dir>>
            /\ RaceUnchanged

\* safe_remove of a stale file: file_path.unlink()
RaceMdUnlink ==
    \E p \in Procs :
        LET pr == procs[p]
        IN  /\ pr.pc = "md_unlink"
            /\ IF md_dir[pr.item].kind = "absent"
               THEN /\ procs' = [procs EXCEPT ![p] =
                          AfterError(pr, "unlink", NextMd(pr).pc)]
                    /\ UNCHANGED md_dir
               ELSE /\ procs' = [procs EXCEPT ![p] = NextMd(pr)]
                    /\ md_dir' = [md_dir EXCEPT ![pr.item] = MdAbsent]
            /\ UNCHANGED cmd_dir
            /\ RaceUnchanged

RaceNext ==
    \/ RaceExists
    \/ RaceIsSymlink
    \/ RaceResolve
    \/ RaceSamefile
    \/ RaceRmCheck
    \/ RaceUnlink
    \/ RaceSymlink
    \/ RaceIterdir
    \/ RaceItem
    \/ RaceTarget
    \/ RaceOpen
    \/ RaceWrite
    \/ RaceGlob
    \/ RaceMdItem
    \/ RaceMdRmCheck
    \/ RaceMdUnlink

RaceSpec == RaceInit /\ [][RaceNext]_vars

-----------------------------------------------------------------------------
(* One call of a function of the AGENTS.md links, on tool roots that hold   *)
(* an entry of any kind at the path of the link.                            *)

\* A tool root before the call: missing, or with nothing, a regular file,
\* the link to AGENTS.md or a broken link at the path of its link. The roots
\* of Qwen, Codex and iFlow take three of these.
AgentsStates ==
    [Roots -> {"missing", "absent", "file", "link", "broken"}]

AgentsEntry(k) ==
    CASE k = "absent" -> Absent
      [] k = "file"   -> RegularFile
      [] k = "link"   -> Link(agents_md_source)
      [] k = "broken" -> Link(Path("OTHER", "z"))

\* The tool roots in the states ks; ~/.roo/rules is there when ~/.roo holds
\* an entry.
AgentsHome(ks) ==
    [p \in DirPaths |->
        IF Len(p) = 1
        THEN IF ks[p[1]] = "missing" THEN NoDir
             ELSE Dir([n \in RootNames(p[1]) |-> AgentsEntry(ks[p[1]])])
        ELSE IF p = target_roo_rules /\ ks[".roo"] \notin {"missing", "absent"}
             THEN Dir([n \in {"AGENTS.md"} |-> AgentsEntry(ks[".roo"])])
             ELSE NoDir]

AgentsHomes ==
    {AgentsHome(ks) : ks \in {k \in AgentsStates :
        \A r \in {".qwen", ".codex", ".iflow"} : k[r] \in {"missing", "file", "link"}}}

\* The configured paths of the link: the directory and the name.
AgentsTargets ==
    {<< <<agents_md_targets[i][1]>>, agents_md_targets[i][2] >> :
        i \in 1..Len(agents_md_targets)} \cup {<<target_roo_rules, "AGENTS.md">>}

AgentsFns == {"_create_agents_md_link", "_remove_agents_md_link", "_sync_agents_md_links"}

AgentsArgs(f) ==
    IF f = "_sync_agents_md_links" THEN AgentsHomes \X BOOLEAN
    ELSE {<<h, t[1], t[2]>> : h \in AgentsHomes, t \in AgentsTargets}

AgentsInit ==
    /\ fn \in AgentsFns
    /\ args \in AgentsArgs(fn)
    /\ ret = <<>>
    /\ cpc = "called"
    \* the link reconciler is not run
    /\ srcFiles = {}
    /\ source_files = <<>>
    /\ cmd_dir = [n \in Names |-> Absent]
    /\ cmd_dir0 = cmd_dir
    /\ lpc = "idle"
    /\ li = 1
    /\ lrun = 1
    /\ lmutRuns = {}
    /\ lfailed = FALSE
    /\ lcfailed = FALSE
    /\ lprevOk = TRUE
    \* the extract reconciler is not run
    /\ toml_files = <<>>
    /\ first_toml_files = <<>>
    /\ strip_prefix = None
    /\ md_dir = [n \in MdNames |-> MdAbsent]
    /\ md_dir0 = md_dir
    /\ created_md_files = {}
    /\ epc = "idle"
    /\ ei = 1
    /\ erun = 1
    /\ emutRuns = {}
    /\ efailed = FALSE
    /\ ecfailed = FALSE
    /\ eprevOk = TRUE
    \* main is not run
    /\ commands_exists = FALSE
    /\ agents_dir = [exists |-> FALSE, files |-> <<>>]
    /\ agents_md_exists = FALSE
    /\ has_yaml = "no PyYAML"
    /\ home = <<>>
    /\ home0 = <<>>
    /\ mpc = "idle"
    /\ mi = 1
    \* no two passes run at once
    /\ procs = <<>>

AgentsUnchanged ==
    /\ UNCHANGED <<fn, args>>
    /\ UNCHANGED <<linkVars, extractVars, mainVars, raceVars>>

\* _create_agents_md_link(agents_md_source, root_dir, target_file_name) is
\* called and returns: what it returns, and the directories after it.
Call_create_agents_md_link ==
    /\ cpc = "called"
    /\ fn = "_create_agents_md_link"
    /\ ret' = <<CreateResult(args[1], args[2]),
                _create_agents_md_link(args[1], args[2], args[3])>>
    /\ cpc' = "returned"
    /\ AgentsUnchanged

\* _remove_agents_md_link(root_dir, target_file_name) is called and returns.
Call_remove_agents_md_link ==
    /\ cpc = "called"
    /\ fn = "_remove_agents_md_link"
    /\ ret' = <<None, _remove_agents_md_link(args[1], args[2], args[3])>>
    /\ cpc' = "returned"
    /\ AgentsUnchanged

\* _sync_agents_md_links(home) is called, AGENTS.md existing as args[2]
\* says, and returns.
Call_sync_agents_md_links ==
    /\ cpc = "called"
    /\ fn = "_sync_agents_md_links"
    /\ ret' = <<None, _sync_agents_md_links(args[1], args[2])>>
    /\ cpc' = "returned"
    /\ AgentsUnchanged

AgentsNext ==
    \/ Call_create_agents_md_link
    \/ Call_remove_agents_md_link
    \/ Call_sync_agents_md_links

AgentsMdSpec == AgentsInit /\ [][AgentsNext]_vars

-----------------------------------------------------------------------------
(* One extract pass on a target directory that holds symbolic links to a    *)
(* file outside it.                                                         *)

\* A symbolic link of the target directory to the file outside it.
MdLink == [kind |-> "link", body |-> <<>>]

PreciousBody == <<"precious">>

\* The target directory and the file outside it (MdAbsent: no such file).
Fs(dir, outside) == [dir |-> dir, outside |-> outside]

\* What open() and stat() find at the paths of the target directory: they
\* follow a link to the file outside.
Followed(fs) ==
    [n \in DOMAIN fs.dir |-> IF fs.dir[n].kind = "link" THEN fs.outside ELSE fs.dir[n]]

\* _process_source_file on fs: open(target_file, "w") truncates and fills the
\* file the path leads to, which for a link is the file outside.
FollowProcess(fs, source_file, prefix) ==
    LET r == _process_source_file(St(Followed(fs), FALSE, FALSE), source_file, prefix,
                                  FALSE, NoYaml, "ok")
    IN  IF r.result = None THEN [fs |-> fs, result |-> None]
        ELSE LET name == r.result[1]
             IN  [fs |-> IF fs.dir[name].kind = "link"
                         THEN Fs(fs.dir, r.st.dir[name])
                         ELSE Fs([fs.dir EXCEPT ![name] = r.st.dir[name]], fs.outside),
                  result |-> r.result]

\* The loop of extract_prompts_to_md over toml_files from index i on.
RECURSIVE FollowFrom(_, _, _, _, _)
FollowFrom(fs, created, toml, prefix, i) ==
    IF i > Len(toml) THEN [fs |-> fs, created |-> created]
    ELSE LET r == FollowProcess(fs, toml[i], prefix)
         IN  FollowFrom(r.fs,
                        IF r.result = None THEN created ELSE created \cup {r.result[1]},
                        toml, prefix, i + 1)

\* _cleanup_stale_md_files on fs: glob("*.md") lists links too, and
\* safe_remove unlinks the link, not the file it leads to.
FollowCleanup(fs, toml, created, prefix) ==
    Fs([n \in DOMAIN fs.dir |->
           IF fs.dir[n].kind # "absent" /\ _should_remove_md_file(n, toml, created, prefix)
           THEN MdAbsent ELSE fs.dir[n]],
       fs.outside)

\* extract_prompts_to_md on fs.
FollowPass(fs, toml, prefix) ==
    LET x == FollowFrom(fs, {}, toml, prefix, 1)
    IN  FollowCleanup(x.fs, toml, x.created, prefix)

FollowDirs == [MdNames -> {MdAbsent, MdFile(OldBody), MdLink}]

\* The source lists of the pass: distinct sources with a prompt.
FollowTomls == {t \in SeqsUpTo({Source(st, TRUE) : st \in Stems}, MaxSources) : Distinct(t)}

FollowInit ==
    /\ fn = "extract_prompts_to_md"
    /\ \E dir \in FollowDirs, outside \in {MdAbsent, MdFile(PreciousBody)},
          toml \in FollowTomls, prefix \in Prefixes :
            args = <<Fs(dir, outside), toml, prefix>>
    /\ ret = <<>>
    /\ cpc = "called"
    \* the link reconciler is not run
    /\ srcFiles = {}
    /\ source_files = <<>>
    /\ cmd_dir = [n \in Names |-> Absent]
    /\ cmd_dir0 = cmd_dir
    /\ lpc = "idle"
    /\ li = 1
    /\ lrun = 1
    /\ lmutRuns = {}
    /\ lfailed = FALSE
    /\ lcfailed = FALSE
    /\ lprevOk = TRUE
    \* the extract reconciler is not run
    /\ toml_files = <<>>
    /\ first_toml_files = <<>>
    /\ strip_prefix = None
    /\ md_dir = [n \in MdNames |-> MdAbsent]
    /\ md_dir0 = md_dir
    /\ created_md_files = {}
    /\ epc = "idle"
    /\ ei = 1
    /\ erun = 1
    /\ emutRuns = {}
    /\ efailed = FALSE
    /\ ecfailed = FALSE
    /\ eprevOk = TRUE
    \* main is not run
    /\ commands_exists = FALSE
    /\ agents_dir = [exists |-> FALSE, files |-> <<>>]
    /\ agents_md_exists = FALSE
    /\ has_yaml = "no PyYAML"
    /\ home = <<>>
    /\ home0 = <<>>
    /\ mpc = "idle"
    /\ mi = 1
    \* no two passes run at once
    /\ procs = <<>>

\* extract_prompts_to_md(toml_files, target_cmds_dir, tool_name, strip_prefix)
\* is called and returns.
Call_extract_prompts_to_md ==
    /\ cpc = "called"
    /\ fn = "extract_prompts_to_md"
    /\ ret' = FollowPass(args[1], args[2], args[3])
    /\ cpc' = "returned"
    /\ AgentsUnchanged

\* extract_prompts_to_md is called again on the same sources, on what the
\* first call left, and returns.
Call_extract_prompts_to_md_again ==
    /\ cpc = "returned"
    /\ fn = "extract_prompts_to_md"
    /\ args' = <<ret, args[2], args[3]>>
    /\ ret' = FollowPass(ret, args[2], args[3])
    /\ cpc' = "returned again"
    /\ UNCHANGED fn
    /\ UNCHANGED <<linkVars, extractVars, mainVars, raceVars>>

FollowNext == Call_extract_prompts_to_md \/ Call_extract_prompts_to_md_again

FollowSpec == FollowInit /\ [][FollowNext]_vars

-----------------------------------------------------------------------------
(* One call of _process_source_file on a record whose fields need not be    *)
(* strings, PyYAML not installed.                                           *)

\* A value of a parsed record: a string, or an integer (prompt = 5).
StrValue(s) == [type |-> "str", val |-> s]

IntValue == [type |-> "int", val |-> <<"5">>]

\* str(value), as an f-string formats it.
Formatted(v) == v.val

\* A parsed source whose fields are values of either type.
TypedSource(stem, data) == [stem |-> stem, valid |-> TRUE, data |-> data]

TypedData ==
    UNION {[keys -> {StrValue(<<"p">>), IntValue}] : keys \in SUBSET {"prompt", "description"}}

\* The source with every field formatted as a string.
FormattedSource(source_file) ==
    [source_file EXCEPT !.data = [k \in DOMAIN source_file.data |->
                                     Formatted(source_file.data[k])]]

\* What a call leaves: the directory, the value returned, the exception that
\* leaves the function (None: it returns).
Outcome(st, result, raised) == [st |-> st, result |-> result, raised |-> raised]

\* _process_source_file on a record of typed fields, no I/O operation
\* failing. Its except clause names OSError and ValueError only:
\*   - f.write(prompt_content) raises TypeError for a prompt that is not a
\*     string, after open(target_file, "w") truncated the file;
\*   - the f-string of the branch with a description formats any prompt;
\*   - '\n' in description, in _format_yaml_description without PyYAML,
\*     raises TypeError for an integer, before the file is opened.
ProcessTyped(st, source_file, prefix, include_description) ==
    LET r == _process_source_file(st, FormattedSource(source_file), prefix,
                                  include_description, NoYaml, "ok")
        data == source_file.data
    IN  IF r.result = None THEN Outcome(r.st, None, None)
        ELSE IF /\ include_description
                /\ "description" \in DOMAIN data
                /\ data.description.type # "str"
        THEN Outcome(st, None, Some("TypeError"))
        ELSE IF ~include_description /\ data.prompt.type # "str"
        THEN Outcome(St([st.dir EXCEPT ![r.result[1]] = MdFile(<<>>)], TRUE, st.failed),
                     None, Some("TypeError"))
        ELSE Outcome(r.st, r.result, None)

TypedInit ==
    /\ fn = "_process_source_file"
    /\ \E stem \in Stems, data \in TypedData, prefix \in Prefixes,
          include_description \in BOOLEAN, prior \in SUBSET MdNames :
            /\ Cardinality(prior) <= 1
            /\ args = <<[n \in MdNames |-> IF n \in prior THEN MdFile(OldBody) ELSE MdAbsent],
                        TypedSource(stem, data), prefix, include_description>>
    /\ ret = <<>>
    /\ cpc = "called"
    \* the link reconciler is not run
    /\ srcFiles = {}
    /\ source_files = <<>>
    /\ cmd_dir = [n \in Names |-> Absent]
    /\ cmd_dir0 = cmd_dir
    /\ lpc = "idle"
    /\ li = 1
    /\ lrun = 1
    /\ lmutRuns = {}
    /\ lfailed = FALSE
    /\ lcfailed = FALSE
    /\ lprevOk = TRUE
    \* the extract reconciler is not run
    /\ toml_files = <<>>
    /\ first_toml_files = <<>>
    /\ strip_prefix = None
    /\ md_dir = [n \in MdNames |-> MdAbsent]
    /\ md_dir0 = md_dir
    /\ created_md_files = {}
    /\ epc = "idle"
    /\ ei = 1
    /\ erun = 1
    /\ emutRuns = {}
    /\ efailed = FALSE
    /\ ecfailed = FALSE
    /\ eprevOk = TRUE
    \* main is not run
    /\ commands_exists = FALSE
    /\ agents_dir = [exists |-> FALSE, files |-> <<>>]
    /\ agents_md_exists = FALSE
    /\ has_yaml = "no PyYAML"
    /\ home = <<>>
    /\ home0 = <<>>
    /\ mpc = "idle"
    /\ mi = 1
    \* no two passes run at once
    /\ procs = <<>>

\* _process_source_file is called by the loop of a pass and returns or raises.
TypedCall ==
    /\ cpc = "called"
    /\ ret' = ProcessTyped(St(args[1], FALSE, FALSE), args[2], args[3], args[4])
    /\ cpc' = IF ret'.raised = None THEN "returned" ELSE "raised"
    /\ AgentsUnchanged

\* The call returned: the loop of the pass goes on to its next source.
TypedLoopGoesOn ==
    /\ cpc = "returned"
    /\ cpc' = "next source"
    /\ UNCHANGED ret
    /\ AgentsUnchanged

\* The call raised: the loop of extract_prompts_to_md has no try, the
\* exception leaves the pass, whose later sources and cleanup do not run.
TypedPassLeft ==
    /\ cpc = "raised"
    /\ cpc' = "pass left"
    /\ UNCHANGED ret
    /\ AgentsUnchanged

TypedNext == TypedCall \/ TypedLoopGoesOn \/ TypedPassLeft

TypedSpec == TypedInit /\ [][TypedNext]_vars

-----------------------------------------------------------------------------
(* Claims about the link reconciler, checked under LinkSpec.               *)

SourceNames == SeqToSet(source_files)

IsLinkTo(e, p) == e.kind = "link" /\ Resolve(e.to) = p

Broken(dir, k) == dir[k].kind = "link" /\ Stat(dir, Resolve(dir[k].to)) = <<"ENOENT">>

\* C2: after a run of _sync_symlinks_to_dir in which no create or remove
\* failed, the entry named after each source is a symbolic link whose
\* resolved target is the canonical path of that source, whatever the entry
\* was before (absent, correct, wrong, broken link, regular file).
C2_LinksConverge ==
    (lpc = "done" /\ ~lfailed /\ ~lcfailed) =>
        \A n \in SourceNames : IsLinkTo(cmd_dir[n], Resolve(SourcePath(n)))

C2_Witness ==
    /\ lpc = "done" /\ lrun = 1 /\ ~lfailed /\ ~lcfailed
    /\ \E n, m, k \in SourceNames :
        /\ cmd_dir0[n] = RegularFile
        /\ Broken(cmd_dir0, m)
        /\ cmd_dir0[k].kind = "link" /\ ~Broken(cmd_dir0, k)
        /\ ~IsLinkTo(cmd_dir0[k], Resolve(SourcePath(k)))

\* C3: after the cleanup pass with every removal succeeding, no link of the
\* target directory resolves to a name directly in the canonical source
\* directory that is not the basename of a current source.
C3_NoStaleLinkLeft ==
    (lpc = "done" /\ ~lcfailed) =>
        \A k \in Names :
            ~(/\ cmd_dir[k].kind = "link"
              /\ Resolve(cmd_dir[k].to).dir = "SRC"
              /\ Resolve(cmd_dir[k].to).name \notin SourceNames)

C3_Witness ==
    /\ lpc = "done" /\ lrun = 1 /\ ~lcfailed
    /\ \E k \in Names \ SourceNames :
        /\ cmd_dir0[k] = Link(Path("ALIAS", "a"))
        /\ "a" \in srcFiles \ SourceNames
        /\ cmd_dir[k] = Absent

\* C4: when no operation of the earlier runs failed, a run that follows
\* another on the same sources creates, removes and replaces nothing.
C4_SecondRunNoMutation == lprevOk => lmutRuns \subseteq {1}

C4_Witness ==
    /\ lrun = 2 /\ lpc = "done" /\ lprevOk
    /\ 1 \in lmutRuns
    /\ Len(source_files) >= 2

\* C6: an existing link whose resolved target is the same object as the
\* expected source is never changed by a step of the run, also when the path
\* it stores differs from the canonical source path.
C6_CorrectLinkUntouched ==
    [][\A n \in SourceNames :
          (cmd_dir[n].kind = "link"
           /\ samefile(cmd_dir, Resolve(cmd_dir[n].to), Resolve(SourcePath(n))) = "same")
          => cmd_dir'[n] = cmd_dir[n]]_vars

C6_Witness ==
    /\ lpc = "done"
    /\ \E n \in SourceNames :
        /\ cmd_dir[n].kind = "link"
        /\ cmd_dir[n].to # Resolve(SourcePath(n))
        /\ cmd_dir[n].to.dir = "ALIAS"

\* C7: the cleanup pass leaves every link alone whose resolved target is
\* outside the canonical source directory.
C7_CleanupKeepsOutsideLinks ==
    [][LinkCleanup =>
          \A k \in Names :
              (cmd_dir[k].kind = "link" /\ Resolve(cmd_dir[k].to).dir # "SRC")
              => cmd_dir'[k] = cmd_dir[k]]_vars

C7_Witness ==
    /\ lpc = "done"
    /\ \E k \in Names \ SourceNames :
        /\ cmd_dir[k] = Link(Path("OTHER", "a"))
        /\ "a" \notin SourceNames
        /\ \E j \in Names : cmd_dir0[j] # cmd_dir[j]

\* C8: after the cleanup pass with every removal succeeding, no broken link
\* is left in the target directory, wherever its missing target lies.
C8_NoBrokenLinkLeft ==
    (lpc = "done" /\ ~lcfailed) => \A k \in Names : ~Broken(cmd_dir, k)

-----------------------------------------------------------------------------
(* Claims about the extract reconciler, checked under ExtractSpec.          *)

Sources == {toml_files[i] : i \in 1..Len(toml_files)}

HasPrompt(src) == "prompt" \in DOMAIN src.data

\* The output stems of the current sources (post-strip, non-empty).
OutputStems ==
    {_get_output_stem(src.stem, strip_prefix)[1] :
        src \in {x \in Sources : Truthy(_get_output_stem(x.stem, strip_prefix))}}

\* The stems _should_remove_md_file compares an entry with as expected stems.
ExpectedStems ==
    {IF Truthy(_get_output_stem(src.stem, strip_prefix))
     THEN _get_output_stem(src.stem, strip_prefix)[1] ELSE src.stem : src \in Sources}

Present(dir, name) == dir[name].kind = "file"

\* C1: after an extract run in which no I/O operation failed, every source
\* with a prompt and a non-empty output stem has its file <output stem>.md,
\* whose body is the source's prompt. Stated for the sources whose output
\* stem no other source of the run shares, where no later writer can have
\* replaced the body.
C1_EveryPromptExtracted ==
    (epc = "done" /\ ~efailed /\ ~ecfailed) =>
        \A src \in Sources :
            LET out == _get_output_stem(src.stem, strip_prefix)
            IN  (/\ HasPrompt(src)
                 /\ Truthy(out)
                 /\ \A other \in Sources \ {src} :
                        _get_output_stem(other.stem, strip_prefix) # out)
                => md_dir[MdName(out[1])] = MdFile(src.data.prompt)

C9_KeptIffCreated ==
    [][(ExtractCleanup /\ ~ecfailed') =>
          \A item \in MdNames :
              (Present(md_dir, item) /\ StemOf(item) \in ExpectedStems)
              => (Present(md_dir', item) <=> item \in created_md_files)]_vars

\* C10: after the stale cleanup with every removal succeeding, the target
\* directory holds no *.md entry whose stem is not the output stem of a
\* current source: neither one named after a pre-strip stem nor an orphan.
C10_NoStaleMdLeft ==
    (epc = "done" /\ ~ecfailed) =>
        \A item \in MdNames : Present(md_dir, item) => StemOf(item) \in OutputStems

C10_Witness ==
    /\ epc = "done" /\ erun = 1 /\ ~ecfailed
    /\ strip_prefix = Some(CLAUDE_PREFIX)
    /\ \E legacy, orphan \in MdNames :
        /\ Present(md_dir0, legacy) /\ Present(md_dir0, orphan)
        /\ StemOf(legacy) \in {src.stem : src \in Sources} \ OutputStems
        /\ StemOf(orphan) \notin {src.stem : src \in Sources} \cup ExpectedStems
        /\ ~Present(md_dir, legacy) /\ ~Present(md_dir, orphan)

-----------------------------------------------------------------------------
(* Claims about the naming policy, checked under CallSpec.                 *)

Returned(f) == cpc = "returned" /\ fn = f

\* The strip_prefix argument names a prefix to strip: neither None nor "".
PrefixSet(prefix) == prefix # None /\ prefix[1] # <<>>

\* The sequences r with p \o r = s: {r} when s starts with p, {} otherwise.
Remainders(s, p) == {r \in SeqsUpTo(Chars, MaxStemLen) : p \o r = s}

\* C12: _get_output_stem returns the stem unchanged when the prefix is unset
\* or empty or the stem does not start with it, and exactly the remainder
\* when the stem starts with the prefix and the remainder is not empty.
C12_ResolveStripsPrefix ==
    Returned("_get_output_stem") =>
        LET stem == args[1]
            prefix == args[2]
        IN  /\ (~PrefixSet(prefix) \/ Remainders(stem, prefix[1]) = {})
                    => ret = Some(stem)
            /\ PrefixSet(prefix) =>
                    \A r \in Remainders(stem, prefix[1]) \ {<<>>} : ret = Some(r)

C12_Witness ==
    /\ Returned("_get_output_stem")
    /\ args = <<<<"c", "_", "a">>, Some(CLAUDE_PREFIX)>>
    /\ ret = Some(<<"a">>)

\* C13 as stated: when the stem equals the prefix, so that stripping would
\* leave nothing, _get_output_stem returns the original stem unchanged.
C13_EmptyRemainderKeepsStem ==
    (Returned("_get_output_stem") /\ PrefixSet(args[2]) /\ args[1] = args[2][1])
        => ret = Some(args[1])

\* C13 as amended: when the stem equals the prefix, _get_output_stem returns
\* None: neither the original stem nor an empty string.
C13_EmptyRemainderIsNone ==
    (Returned("_get_output_stem") /\ PrefixSet(args[2]) /\ args[1] = args[2][1])
        => ret = None

C13_Witness ==
    /\ Returned("_get_output_stem")
    /\ args = <<CLAUDE_PREFIX, Some(CLAUDE_PREFIX)>>
    /\ ret = None

\* The remainder of the stem s after the prefix, when the prefix is set, s
\* starts with it and something is left; {} otherwise.
Stripped(s, prefix) ==
    IF PrefixSet(prefix) THEN Remainders(s, prefix[1]) \ {<<>>} ELSE {}

\* C15: _compute_expected_md_stems returns (expected, old_format): expected
\* is exactly the set of resolved stems of the sources (the remainder after
\* the prefix, the original stem when nothing is stripped or nothing would be
\* left), each once however many sources resolve to it; old_format is
\* exactly the set of original stems of the sources whose resolved stem
\* differs from the original, and is empty when no prefix is given.
C15_ExpectedAndLegacyStems ==
    Returned("_compute_expected_md_stems") =>
        LET srcs == SeqToSet(args[1])
            prefix == args[2]
        IN  /\ ret[1] = UNION {IF Stripped(s, prefix) = {} THEN {s}
                                ELSE Stripped(s, prefix) : s \in srcs}
            /\ ret[2] = {s \in srcs : Stripped(s, prefix) # {}}
            /\ ~PrefixSet(prefix) => ret[2] = {}

\* Two sources collide on one stem.
C15_Witness ==
    /\ Returned("_compute_expected_md_stems")
    /\ args = <<<< <<"c", "_", "a">>, <<"a">> >>, Some(CLAUDE_PREFIX)>>
    /\ ret = << {<<"a">>}, {<<"c", "_", "a">>} >>

-----------------------------------------------------------------------------
(* Further claims about the extract reconciler, checked under ExtractSpec. *)

\* The source the extraction loop is about to process.
AtSource == epc = "extract" /\ ei <= Len(toml_files)

\* A source with a prompt whose stem is the prefix itself: nothing is left
\* of the stem after stripping.
NoStemLeft(src) ==
    /\ HasPrompt(src)
    /\ PrefixSet(strip_prefix)
    /\ src.stem = strip_prefix[1]

\* A source with a prompt and a usable output stem.
Extractable(src) == HasPrompt(src) /\ ~NoStemLeft(src)

\* The name of the file an extractable source is written to.
OutputName(src) ==
    MdName(IF Stripped(src.stem, strip_prefix) = {} THEN src.stem
           ELSE CHOOSE r \in Stripped(src.stem, strip_prefix) : TRUE)

\* C14: a source whose stem leaves nothing after prefix stripping is
\* skipped: its loop iteration writes no file and adds nothing to
\* created_md_files, the loop goes on to the next source, and at the end of
\* a pass without a failing write every other extractable source is in
\* created_md_files.
C14_EmptyStemSkipped ==
    [][/\ (AtSource /\ NoStemLeft(toml_files[ei])) =>
            /\ md_dir' = md_dir
            /\ created_md_files' = created_md_files
            /\ ei' = ei + 1
            /\ epc' = "extract"
       /\ (epc' = "done" /\ ~efailed' /\ \E src \in Sources : NoStemLeft(src)) =>
            \A src \in Sources :
                Extractable(src) => OutputName(src) \in created_md_files'
      ]_vars

C14_Witness ==
    /\ epc = "done"
    /\ strip_prefix = Some(CLAUDE_PREFIX)
    /\ toml_files = <<Source(CLAUDE_PREFIX, TRUE), Source(<<"c", "_", "a">>, TRUE)>>
    /\ created_md_files = {MdName(<<"a">>)}
    /\ md_dir[MdName(CLAUDE_PREFIX)] = MdAbsent
    /\ md_dir[MdName(<<"a">>)] = MdFile(PromptOf(<<"c", "_", "a">>))

\* The sources of the list that are written to the file called name, in
\* input order.
WritersOf(name) ==
    {i \in 1..Len(toml_files) :
        Extractable(toml_files[i]) /\ OutputName(toml_files[i]) = name}

Max(S) == CHOOSE x \in S : \A y \in S : y <= x

\* C16: when two sources of a pass resolve to the same output stem, then
\* after the pass (no write having failed) the one file <stem>.md is there,
\* kept by the cleanup, and holds the prompt of the source processed last.
C16_LastWriterWins ==
    (epc = "done" /\ ~efailed) =>
        \A name \in MdNames :
            Cardinality(WritersOf(name)) >= 2 =>
                md_dir[name] = MdFile(toml_files[Max(WritersOf(name))].data.prompt)

C16_Witness ==
    /\ epc = "done"
    /\ strip_prefix = Some(CLAUDE_PREFIX)
    /\ toml_files = <<Source(<<"c", "_", "a">>, TRUE), Source(<<"a">>, TRUE)>>
    /\ md_dir[MdName(<<"a">>)] = MdFile(PromptOf(<<"a">>))

\* A source that tomllib.load rejects or that has no "prompt" key.
Unusable(src) == ~src.valid \/ ~HasPrompt(src)

\* C17: a source that fails to parse or lacks the prompt key is not fatal:
\* its loop iteration returns None (nothing joins created_md_files), writes
\* no file and goes on to the next source, and at the end of a pass without
\* a failing write every extractable source of the list is in
\* created_md_files.
C17_BadSourceSkipped ==
    [][/\ (AtSource /\ Unusable(toml_files[ei])) =>
            /\ md_dir' = md_dir
            /\ created_md_files' = created_md_files
            /\ ei' = ei + 1
            /\ epc' = "extract"
       /\ (epc' = "done" /\ ~efailed' /\ \E src \in Sources : Unusable(src)) =>
            \A src \in Sources :
                Extractable(src) => OutputName(src) \in created_md_files'
      ]_vars

C17_Witness ==
    /\ epc = "done"
    /\ strip_prefix = Some(CLAUDE_PREFIX)
    /\ toml_files = <<InvalidSource(<<"a">>), Source(<<"c", "_", "c", "_", "a">>, TRUE)>>
    /\ created_md_files = {MdName(<<"c", "_", "a">>)}
    /\ md_dir[MdName(<<"a">>)] = MdAbsent
    /\ md_dir[MdName(<<"c", "_", "a">>)] =
           MdFile(PromptOf(<<"c", "_", "c", "_", "a">>))

-----------------------------------------------------------------------------
(* A claim about passes between which a source is deleted, checked under   *)
(* DeleteSpec.                                                             *)

\* The sources of the scenario: a.toml, not prefixed, and c_c_a.toml, whose
\* stem is CLAUDE_PREFIX followed by c_a; both have a prompt.
PlainSource == Source(<<"a">>, TRUE)

PrefixedSource == Source(CLAUDE_PREFIX \o <<"c", "_", "a">>, TRUE)

TwoPassScenario ==
    /\ strip_prefix = Some(CLAUDE_PREFIX)
    /\ SeqToSet(first_toml_files) = {PlainSource, PrefixedSource}
    /\ eprevOk /\ ~efailed /\ ~ecfailed

\* C11: with the prefix set and the sources a and <prefix>c_a, the first
\* pass leaves a.md with the prompt of a, c_a.md with the prompt of
\* <prefix>c_a and no <prefix>c_a.md; once source a is deleted and a second
\* pass has run, a.md is absent and c_a.md is still there with the same body.
C11_TwoPassScenario ==
    (TwoPassScenario /\ epc = "done") =>
        /\ erun = 1 =>
              /\ md_dir[MdName(<<"a">>)] = MdFile(PlainSource.data.prompt)
              /\ md_dir[MdName(<<"c", "_", "a">>)] = MdFile(PrefixedSource.data.prompt)
              /\ md_dir[MdName(PrefixedSource.stem)] = MdAbsent
        /\ (erun = 2 /\ toml_files = <<PrefixedSource>>) =>
              /\ md_dir[MdName(<<"a">>)] = MdAbsent
              /\ md_dir[MdName(<<"c", "_", "a">>)] = MdFile(PrefixedSource.data.prompt)
              /\ md_dir[MdName(<<"c", "_", "a">>)] = md_dir0[MdName(<<"c", "_", "a">>)]

C11_Witness ==
    /\ TwoPassScenario
    /\ epc = "done"
    /\ erun = 2
    /\ toml_files = <<PrefixedSource>>
    /\ md_dir0[MdName(<<"a">>)] = MdFile(PlainSource.data.prompt)
    /\ md_dir[MdName(<<"a">>)] = MdAbsent

-----------------------------------------------------------------------------
(* A further claim about the link reconciler, checked under LinkSpec.      *)

\* The entries that are not in their converged state: a source whose entry
\* is not a link to it, and a link into the source directory under a name
\* that is no source.
Unconverged ==
    {n \in SourceNames : ~IsLinkTo(cmd_dir[n], Resolve(SourcePath(n)))}
        \cup {k \in Names : /\ cmd_dir[k].kind = "link"
                             /\ Resolve(cmd_dir[k].to).dir = "SRC"
                             /\ Resolve(cmd_dir[k].to).name \notin SourceNames}

\* C18: an OSError of one os.symlink or unlink is not propagated: the
\* creation loop goes on to the next source, the cleanup sweep still runs and
\* ends the pass, and at the end of the pass in which the one operation
\* failed at most the entry it was about is not converged.
C18_LinkFailureIsolated ==
    [][/\ (lpc = "links" /\ li <= Len(source_files)) => (li' = li + 1 /\ lpc' = "links")
       /\ (lpc = "links" /\ li > Len(source_files)) => lpc' = "done"
       /\ (lpc' = "done" /\ lprevOk') =>
            /\ Cardinality(Unconverged') <= 1
            /\ (~lfailed' /\ ~lcfailed') => Unconverged' = {}
      ]_vars

C18_Witness ==
    /\ lpc = "done" /\ lrun = 1 /\ lfailed
    /\ Len(source_files) >= 2
    /\ Unconverged = {source_files[1]}
    /\ cmd_dir0[source_files[2]] = RegularFile
    /\ IsLinkTo(cmd_dir[source_files[2]], Resolve(SourcePath(source_files[2])))
    /\ \E k \in Names \ SourceNames :
          cmd_dir0[k] = Link(Path("SRC", k)) /\ cmd_dir[k] = Absent

-----------------------------------------------------------------------------
(* A claim about the text of an extracted file, checked under CallSpec.    *)

Dashes == <<"-", "-", "-">>

HasBreak(s) == \E i \in 1..Len(s) : s[i] = "\n"

\* str.split("\n") and "\n".join
RECURSIVE Lines(_)
Lines(s) ==
    IF ~HasBreak(s) THEN <<s>>
    ELSE LET k == CHOOSE i \in 1..Len(s) :
                      s[i] = "\n" /\ \A j \in 1..(i - 1) : s[j] # "\n"
         IN  <<SubSeq(s, 1, k - 1)>> \o Lines(SubSeq(s, k + 1, Len(s)))

RECURSIVE JoinLines(_)
JoinLines(ls) ==
    IF ls = <<>> THEN <<>>
    ELSE IF Len(ls) = 1 THEN ls[1]
    ELSE ls[1] \o <<"\n">> \o JoinLines(Tail(ls))

\* C20: the file _write_prompt_file wrote holds, when a description is
\* given, a first line "---", directly after it the serialized block, of
\* which no line is "---" (so the file never starts with two delimiter
\* lines), then the closing line "---", one empty line and the prompt to the
\* end of the file; when no description is given, the prompt and nothing
\* else.
C20_FileLayout ==
    (Returned("_write_prompt_file") /\ ~ret[2]) =>
        LET body == args[2]
            description == args[3]
            text == ret[1].body
            lines == Lines(text)
        IN  /\ ret[1].kind = "file"
            /\ description = None => text = body
            /\ description # None =>
                 /\ lines[1] = Dashes
                 /\ lines[2] # Dashes
                 /\ \E k \in 3..(Len(lines) - 1) :
                      /\ \A j \in 2..(k - 1) : lines[j] # Dashes
                      /\ lines[k] = Dashes
                      /\ JoinLines(SubSeq(lines, 2, k - 1)) =
                             _format_yaml_description(description[1], args[4])
                      /\ lines[k + 1] = <<>>
                      /\ JoinLines(SubSeq(lines, k + 2, Len(lines))) = body

C20_Witness ==
    /\ Returned("_write_prompt_file")
    /\ args = <<MdFile(OldBody), <<"p">>, Some(<<"x", "'">>), YamlMarked>>
    /\ ret = <<MdFile(<<"-", "-", "-", "\n", "description:", " ", "x", "'", "\n",
                        "-", "-", "-", "\n", "\n", "p">>), FALSE>>

-----------------------------------------------------------------------------
(* Claims about main, checked under MainSpec.                              *)

MainDone == mpc = "done"

FoundSources == commands_exists /\ toml_files # <<>>

DirsOf(root) == {p \in DirPaths : p[1] = root}

\* The subdirectories the commands, prompts and agents of a tool go to.
TargetSubDirs(root) ==
    {target_cmds(root)} \cup (IF root = ".claude" THEN {target_claude_agents} ELSE {})

\* The sources of a tool have reached its commands or prompts directory.
Processed(root) ==
    LET entries == home[target_cmds(root)].entries
    IN  IF root \in SeqToSet(targets_symlink)
        THEN \A f \in SeqToSet(shared_files) :
                 IsLinkTo(entries[TomlName(f.stem)], Path("SRC", TomlName(f.stem)))
        ELSE IF root = ".claude"
        THEN \A f \in SeqToSet(toml_files) :
                 entries[MdName(_get_output_stem(f.stem, Some(CLAUDE_PREFIX))[1])]
                     = MdFile(f.data.prompt)
        ELSE \A f \in SeqToSet(shared_files) :
                 /\ entries[MdName(f.stem)].kind = "file"
                 /\ entries[MdName(f.stem)].body # OldBody

-----------------------------------------------------------------------------
(* Claims about the front matter, checked under CallSpec.                  *)

Fallback(f) == Returned(f) /\ args[2] = NoYaml

\* Every quote of s twice, everything else as it is.
RECURSIVE Doubled(_)
Doubled(s) ==
    IF s = <<>> THEN <<>>
    ELSE (IF Head(s) = "'" THEN <<"'", "'">> ELSE <<Head(s)>>) \o Doubled(Tail(s))

\* s with a space in the place of each line break.
Flat(s) == [i \in 1..Len(s) |-> IF s[i] = "\n" THEN " " ELSE s[i]]

Count(s, c) == Cardinality({i \in 1..Len(s) : s[i] = c})

C22_FallbackSingleLine ==
    (Fallback("_format_yaml_description") /\ HasBreak(args[1])) =>
        /\ ~HasBreak(ret)
        /\ Len(ret) = Len(args[1]) + Count(args[1], "'") + 4
        /\ \A i \in 1..Len(args[1]) :
             args[1][i] = "\n" =>
                 ret[3 + i + Count(SubSeq(args[1], 1, i), "'")] = " "

C22_Witness ==
    /\ Fallback("_format_yaml_description")
    /\ args[1] = <<"x", "\n", "\n">>
    /\ ret = <<"description:", " ", "'", "x", " ", " ", "'">>

-----------------------------------------------------------------------------
(* Claims about the front-matter parser, checked under CallSpec.           *)

Begins(text) == Len(text) >= 4 /\ SubSeq(text, 1, 4) = <<"-", "-", "-", "\n">>

\* The positions at which a line break, three dashes and a line break stand,
\* the line break of the opening line being the first that counts.
Closings(text) ==
    {k \in 4..(Len(text) - 4) : SubSeq(text, k, k + 4) = <<"\n", "-", "-", "-", "\n">>}

AfterClosing(text, k) == SubSeq(text, k + 5, Len(text))

EmptyBlock(text) == Begins(text) /\ 4 \in Closings(text)

\* The texts of RawTexts whose block is no mapping: an unclosed bracket, an
\* unclosed quote.
MalformedTexts ==
    {t \in RawTexts : \E i \in 1..(Len(t) - 1) :
        t[i] = " " /\ (t[i + 1] = "[" \/ (t[i + 1] = "'" /\ Count(t, "'") = 1))}

C25_BodyAfterClosing ==
    (Returned("_parse_yaml_frontmatter") /\ ret[1] # None) =>
        /\ Begins(args[1])
        /\ \E k \in Closings(args[1]) :
             /\ \A j \in Closings(args[1]) : k <= j
             /\ ret[2] = AfterClosing(args[1], k)
             /\ DOMAIN ret[1][1] =
                    {KeyOf[args[1][i]] : i \in {j \in 5..(k - 1) : args[1][j] \in KeyTokens}}

\* The block of three fields: the body starts with the line break of the
\* empty line.
C25_Witness ==
    /\ Returned("_parse_yaml_frontmatter")
    /\ ret[1] = Some([name |-> <<"x">>, description |-> <<"d">>, tools |-> <<"y">>])
    /\ ret[2] = <<"\n", "p">>

-----------------------------------------------------------------------------
(* Claims about the agent transform, checked under CallSpec.               *)

\* The line of the marker field, as the active serializer writes it.
MarkerLine(yaml) ==
    IF yaml = NoYaml THEN <<"mode:", " ", "'", "subagent", "'">>
    ELSE <<"mode:", " ", "subagent">>

\* The source has a block the parser reads: PyYAML is there, the text has
\* the two delimiters and the block between them is a mapping (or empty).
SourceParsed(text, yaml) ==
    /\ yaml # NoYaml
    /\ Begins(text)
    /\ Closings(text) # {}
    /\ text \notin MalformedTexts

FirstClosing(text) == CHOOSE k \in Closings(text) : \A j \in Closings(text) : k <= j

\* The lines of the block of a text with the two delimiters.
BlockLines(text) ==
    IF FirstClosing(text) = 4 THEN <<>>
    ELSE Lines(SubSeq(text, 5, FirstClosing(text) - 1))

\* The scalars the lines of a block give the key.
ScalarsOf(lines, token) ==
    {SubSeq(lines[j], 3, Len(lines[j])) :
        j \in {i \in 1..Len(lines) : lines[i] # <<>> /\ lines[i][1] = token}}

C27_AgentWithoutBlock ==
    (Returned("_sync_opencode_agents_folder") /\ ~SourceParsed(args[2], args[3])) =>
        ret[AgentFile] =
            MdFile(<<"-", "-", "-", "\n">> \o MarkerLine(args[3])
                       \o <<"\n", "-", "-", "-", "\n">> \o args[2])

\* The block with the unclosed bracket is kept in the body.
C27_Witness ==
    /\ Returned("_sync_opencode_agents_folder")
    /\ args[3] = YamlMarked
    /\ args[2] \in MalformedTexts
    /\ \E i \in 1..Len(args[2]) : args[2][i] = "["
    /\ ret[AgentFile].body =
         <<"-", "-", "-", "\n", "mode:", " ", "subagent", "\n", "-", "-", "-", "\n">>
             \o args[2]

-----------------------------------------------------------------------------
(* Further claims about main, checked under MainSpec.                      *)

\* The entry in which a tool would hold the artifact of a source: the link
\* by the name of the source file, or the file by its stem, which for Claude
\* is the stem without the prefix.
ArtifactEntry(root, f) ==
    LET entries == home[target_cmds(root)].entries
    IN  IF root \in {".gemini", ".qwen", ".iflow"} THEN entries[f.stem \o <<".toml">>]
        ELSE IF root = ".claude" /\ StartsWith(f.stem, <<"c", "_">>)
             THEN entries[SubSeq(f.stem, 3, Len(f.stem)) \o <<".md">>]
             ELSE entries[f.stem \o <<".md">>]

\* The text of the artifact of a source: its prompt, for Codex after the
\* block of its description.
ArtifactBody(root, f) ==
    IF root = ".codex"
    THEN FileText(f.data.prompt,
                  Some(IF "description" \in DOMAIN f.data THEN f.data.description ELSE <<>>),
                  has_yaml)
    ELSE f.data.prompt

HasArtifact(root, f) ==
    IF root \in {".gemini", ".qwen", ".iflow"}
    THEN IsLinkTo(ArtifactEntry(root, f), Path("SRC", f.stem \o <<".toml">>))
    ELSE ArtifactEntry(root, f) = MdFile(ArtifactBody(root, f))

-----------------------------------------------------------------------------
(* Claims about the order of the passes and their termination, checked     *)
(* under PassSpec.                                                          *)

\* The directories a step changes.
Touched == {q \in DirPaths : home'[q] # home[q]}

\* The step is a termination of the process.
Terminated == erun' # erun

\* The name of the entry the pass makes for a source.
EntryOf(f) ==
    IF IsLinkPass THEN {TomlName(f.stem)}
    ELSE LET out == _get_output_stem(f.stem, Some(CLAUDE_PREFIX))
         IN  IF Truthy(out) THEN {MdName(out[1])} ELSE {}

\* The entry the pass makes for a source is there.
Made(entries, f) ==
    \A n \in EntryOf(f) :
        IF IsLinkPass THEN IsLinkTo(entries[n], Path("SRC", n))
        ELSE entries[n] = MdFile(f.data.prompt)

\* C29: a step changes no directory but the target directory of the pass it
\* belongs to. While sources are left, a step changes only the entry of the
\* next source in input order, makes that entry and goes on to the source
\* after it, so that nothing is swept before the last source is processed.
\* main goes to the next target directory, and never back, only from the
\* cleanup sweep of the current one (or from the test of a missing root).
C29_OrderWithinPass ==
    [][ /\ Touched \subseteq {PassDir}
        /\ (mpc = "loop" /\ ei <= Len(PassFiles)) =>
              /\ \A n \in DOMAIN home[PassDir].entries :
                    home'[PassDir].entries[n] # home[PassDir].entries[n]
                        => n \in EntryOf(PassFiles[ei])
              /\ ~Terminated =>
                    /\ Made(home'[PassDir].entries, PassFiles[ei])
                    /\ ei' = ei + 1 /\ mi' = mi /\ mpc' = "loop"
        /\ (~Terminated /\ mi' # mi) =>
              /\ mi' = mi + 1
              /\ \/ mpc = "enter" /\ ~home[<<PassTargets[mi]>>].exists
                 \/ mpc = "loop" /\ ei > Len(PassFiles)
        /\ (~Terminated /\ mpc' = "done" /\ mpc # "done") =>
              /\ mi = Len(PassTargets)
              /\ \/ mpc = "enter" /\ ~home[<<PassTargets[mi]>>].exists
                 \/ mpc = "loop" /\ ei > Len(PassFiles)
      ]_vars

\* The pass over .gemini/commands is complete, stale link swept; the pass
\* over .qwen/commands has made the link of the first of two shared sources
\* and neither made the second nor swept the stale link.
C29_Witness ==
    /\ erun = 1 /\ mpc = "loop" /\ mi = 2 /\ ei = 2
    /\ Len(shared_files) = 2
    /\ home0[target_cmds(".gemini")].exists /\ home0[target_cmds(".qwen")].exists
    /\ home[target_cmds(".gemini")] = PassOver(home0, 1)[target_cmds(".gemini")]
    /\ home[target_cmds(".gemini")] # home0[target_cmds(".gemini")]
    /\ LET entries == home[target_cmds(".qwen")].entries
       IN  /\ Made(entries, shared_files[1])
           /\ ~Made(entries, shared_files[2])
           /\ StaleLinks(entries, TomlNames(shared_files)) # {}

\* C30: when the process has been terminated, between two steps or inside
\* one, the passes of the new run start from a state from which they end
\* where the uninterrupted passes end from the state before the first run;
\* and the passes that complete do end there, the entries that had reached
\* that state before the termination included.
C30_Resumable ==
    /\ (mpc = "enter" /\ mi = 1) => PassesFrom(home, 1) = PassesFrom(home0, 1)
    /\ mpc = "done" => home = PassesFrom(home0, 1)

\* The passes of the second run are complete; the first run was terminated
\* after it had changed something, and every target directory has changed.
C30_Witness ==
    /\ mpc = "done" /\ erun = 2
    /\ Len(toml_files) = 2 /\ Len(shared_files) = 1
    /\ \A i \in 1..Len(PassTargets) :
         /\ home0[target_cmds(PassTargets[i])].exists
         /\ home[target_cmds(PassTargets[i])] # home0[target_cmds(PassTargets[i])]
    /\ home = PassesFrom(home0, 1)

-----------------------------------------------------------------------------
(* Claims about two passes at once, checked under RaceSpec.                 *)

RaceDone == \A p \in Procs : procs[p].pc = "done"

\* The directory one run of _sync_symlinks_to_dir alone leaves.
SinglePass(dir) ==
    _cleanup_stale_symlinks(SyncFrom(St(dir, FALSE, FALSE), source_files, 1),
                            source_files, {}).dir

\* The directory one run of extract_prompts_to_md alone leaves.
SingleExtract(dir) ==
    LET x == ExtractFrom(St(dir, FALSE, FALSE), {}, toml_files, strip_prefix, FALSE,
                         "no PyYAML", 1)
    IN  _cleanup_stale_md_files(x.st, toml_files, x.created, strip_prefix, {}).dir

\* C31: of two runs of the link pass over the same sources and the same
\* directory, interleaved one filesystem operation at a time, neither ends
\* with an error that is not caught; and when both have returned, the entry
\* of every source, and the rest of the directory, is what one run alone
\* leaves.
C31_RaceConverges ==
    /\ \A p \in Procs : procs[p].pc # "crashed"
    /\ RaceDone =>
          /\ cmd_dir = SinglePass(cmd_dir0)
          /\ Plain(md_dir) = SingleExtract(Plain(md_dir0))

\* Both runs have returned, each of them has logged an error for an entry
\* the other one was at, and the link in the way at a has been replaced.
C31_Witness ==
    /\ RaceDone
    /\ \A p \in Procs : procs[p].logged
    /\ Len(source_files) = 2
    /\ cmd_dir0["a"] = Link(Path("OTHER", "a"))
    /\ cmd_dir0["c"] = Link(Path("SRC", "c"))
    /\ cmd_dir["a"] = Link(Path("SRC", "a"))
    /\ cmd_dir["c"] = Absent

-----------------------------------------------------------------------------
(* Further claims about main, checked under MainSpec.                       *)

\* What an earlier run has produced in the commands or prompts directory of
\* a tool: the links into ./commands, the extracted files.
Produced(root) ==
    LET entries == home[target_cmds(root)].entries
    IN  {n \in DOMAIN entries :
            IF root \in SeqToSet(targets_symlink)
            THEN entries[n].kind = "link" /\ Resolve(entries[n].to).dir = "SRC"
            ELSE entries[n].kind = "file"}

\* C32 as stated: once main has returned from a run that found ./commands
\* without any .toml file, no tool whose root exists holds a link or an
\* extracted file of an earlier run.
C32_EmptySourcesSwept ==
    (MainDone /\ commands_exists /\ toml_files = <<>>) =>
        \A r \in Roots :
            (home[<<r>>].exists /\ home[target_cmds(r)].exists) => Produced(r) = {}

-----------------------------------------------------------------------------
(* Claims about the AGENTS.md links, checked under AgentsMdSpec.            *)

\* The entry at a path of a home.
EntryAt(h, p, n) == IF h[p].exists THEN h[p].entries[n] ELSE Absent

\* The paths a call may touch: every name of every directory.
AllPaths ==
    {<<p, n>> : p \in DirPaths, n \in {"CLAUDE.md", "AGENTS.md", "QWEN.md", "IFLOW.md"}}

\* A home holds the name n in the directory p.
Holds(h, p, n) == h[p].exists /\ n \in DOMAIN h[p].entries

\* C33: _create_agents_md_link changes nothing but the entry at
\* root_dir/target_file_name, and that only from no entry to the link to
\* AGENTS.md: a regular file, a link or a broken link found there stays as
\* it is. It returns False, having created nothing, exactly when root_dir
\* does not exist.
C33_CreateOnlyWhenFree ==
    (cpc = "returned" /\ fn = "_create_agents_md_link") =>
        LET h == args[1]
            p == args[2]
            name == args[3]
            after == ret[2]
        IN  /\ \A q \in DirPaths : q # p => after[q] = h[q]
            /\ after[p].exists = h[p].exists
            /\ h[p].exists =>
                  \A n \in DOMAIN h[p].entries :
                      after[p].entries[n] # h[p].entries[n] =>
                          /\ n = name
                          /\ h[p].entries[n] = Absent
                          /\ after[p].entries[n] = Link(agents_md_source)
            /\ (h[p].exists /\ h[p].entries[name] = Absent) =>
                  after[p].entries[name] = Link(agents_md_source)
            /\ (ret[1] = FALSE /\ after = h) <=> ~h[p].exists
            /\ ret[1] = FALSE <=> ~h[p].exists

\* ~/.claude holds a broken link at CLAUDE.md: the call returns True and the
\* broken link is still there.
C33_Witness ==
    /\ cpc = "returned" /\ fn = "_create_agents_md_link"
    /\ args[2] = <<".claude">>
    /\ args[1][<<".claude">>].exists
    /\ args[1][<<".claude">>].entries["CLAUDE.md"] = Link(Path("OTHER", "z"))
    /\ ret[1] = TRUE
    /\ ret[2][<<".claude">>].entries["CLAUDE.md"] = Link(Path("OTHER", "z"))

\* C34: when AGENTS.md does not exist, _sync_agents_md_links leaves no
\* entry, link or regular file, at any configured path of the link whose
\* directory exists, and makes no link and no directory; when AGENTS.md
\* exists, every entry that was there is still there, unchanged.
C34_SyncRemovesOrKeeps ==
    (cpc = "returned" /\ fn = "_sync_agents_md_links") =>
        LET h == args[1]
            after == ret[2]
        IN  IF args[2]
            THEN \A t \in AllPaths :
                     (Holds(h, t[1], t[2]) /\ h[t[1]].entries[t[2]] # Absent) =>
                         /\ Holds(after, t[1], t[2])
                         /\ after[t[1]].entries[t[2]] = h[t[1]].entries[t[2]]
            ELSE /\ \A t \in AgentsTargets :
                       h[t[1]].exists => after[t[1]].entries[t[2]] = Absent
                 /\ \A q \in DirPaths : after[q].exists = h[q].exists

\* AGENTS.md is missing: a regular file at ~/.claude/CLAUDE.md, the link at
\* ~/.gemini/AGENTS.md and a broken link at ~/.roo/rules/AGENTS.md are gone.
C34_Witness ==
    /\ cpc = "returned" /\ fn = "_sync_agents_md_links"
    /\ ~args[2]
    /\ EntryAt(args[1], <<".claude">>, "CLAUDE.md") = RegularFile
    /\ EntryAt(args[1], <<".gemini">>, "AGENTS.md") = Link(agents_md_source)
    /\ EntryAt(args[1], target_roo_rules, "AGENTS.md") = Link(Path("OTHER", "z"))
    /\ EntryAt(ret[2], <<".claude">>, "CLAUDE.md") = Absent
    /\ EntryAt(ret[2], <<".gemini">>, "AGENTS.md") = Absent
    /\ EntryAt(ret[2], target_roo_rules, "AGENTS.md") = Absent

-----------------------------------------------------------------------------
(* Claim about links in the target directory, checked under FollowSpec.     *)

\* C35: an extract pass leaves the file outside the target directory as it
\* was, also when <stem>.md of the target directory is a symbolic link to it.
C35_OutsideUntouched ==
    (cpc = "returned" /\ fn = "extract_prompts_to_md") => ret.outside = args[1].outside

-----------------------------------------------------------------------------
(* Claims about the order of the sources and about a second pass.           *)

\* The orderings of a list of distinct sources.
Orderings(toml) ==
    {u \in [1..Len(toml) -> SeqToSet(toml)] : SeqToSet(u) = SeqToSet(toml)}

\* No two sources of the list resolve to the same output stem.
OutputStemsDiffer(toml, prefix) ==
    \A i, j \in 1..Len(toml) :
        (/\ i # j
         /\ Truthy(_get_output_stem(toml[i].stem, prefix))
         /\ Truthy(_get_output_stem(toml[j].stem, prefix)))
        => _get_output_stem(toml[i].stem, prefix) # _get_output_stem(toml[j].stem, prefix)

\* The target directory after an extract pass on which nothing fails.
DirAfterPass(dir, toml, prefix) ==
    LET x == ExtractFrom(St(dir, FALSE, FALSE), {}, toml, prefix, FALSE, NoYaml, 1)
    IN  _cleanup_stale_md_files(x.st, toml, x.created, prefix, {}).dir

\* C36: when no two sources resolve to the same output stem, the target
\* directory after an extract pass is the one the pass leaves for every
\* other ordering of the source list.
C36_OrderIndependent ==
    (/\ epc = "done" /\ erun = 1 /\ ~efailed /\ ~ecfailed
     /\ OutputStemsDiffer(toml_files, strip_prefix))
    => \A u \in Orderings(toml_files) :
           DirAfterPass(md_dir0, u, strip_prefix) = md_dir

-----------------------------------------------------------------------------
(* Claim about records with fields that are not strings, checked under      *)
(* TypedSpec.                                                               *)

\* C37: for every parsed record, whatever the types of its fields,
\* _process_source_file returns the written filename or None and no
\* exception leaves it, so that the pass goes on; and when it returns a
\* filename the file holds the complete text.
C37_NoExceptionEscapes ==
    cpc \notin {"idle", "called"} =>
        /\ ret.raised = None
        /\ cpc # "pass left"
        /\ ret.result # None =>
              ret.st.dir[ret.result[1]] =
                  MdFile(FileText(Formatted(args[2].data.prompt),
                                  DescriptionOf(FormattedSource(args[2]).data, args[4]),
                                  NoYaml))

\* C38: a second extract pass on unchanged sources leaves the target
\* directory with the entries the first pass left, each with the content
\* the first pass left (for a link: the content read through it).
C38_SecondPassFixpoint ==
    (cpc = "returned again" /\ fn = "extract_prompts_to_md") =>
        /\ ret.dir = args[1].dir
        /\ Followed(ret) = Followed(args[1])

====
